---- MODULE Spec2Model ----
(***************************************************************************)
(* A model of the TerminalView plugin: the pyte screen (pyte/screens.py),  *)
(* the stream parser (pyte/streams.py), the emulator facade with its       *)
(* history screen (pyte_terminal_emulator.py) and the session loop         *)
(* (TerminalView.py).                                                      *)
(*                                                                         *)
(* An object is one record-valued variable whose fields are the object's   *)
(* attributes; a method is an operator from the record (and the method's   *)
(* arguments) to the record after the call, so that a method that calls    *)
(* other methods is the composition of their operators.  An optional       *)
(* argument left out (None) is written 0: the code reads every one of      *)
(* them as "arg or default".                                               *)
(***************************************************************************)
EXTENDS Integers, Sequences, FiniteSets, TLC

(***************************************************************************)
(* Bounds of the model.                                                    *)
(***************************************************************************)
MaxLines == 2
MaxColumns == 2
MaxSave == 1
MaxWrites == 1
MarginLines == 3
MarginColumns == 2
FacadeLines == 2
FacadeColumns == 1
MaxFacadeLines == 3
MaxFacadeColumns == 1
FacadeHistory == 2
MaxOutput == 1

(***************************************************************************)
(* pyte.modes: the mode codes.  Private codes are shifted by five bits.    *)
(***************************************************************************)
LNM == 20
IRM == 4
DECTCEM == 25 * 32
DECSCNM == 5 * 32
DECOM == 6 * 32
DECAWM == 7 * 32
DECCOLM == 3 * 32

Range(a, b) == {i \in a..(b - 1) : TRUE}

Min(a, b) == IF a < b THEN a ELSE b

Max(a, b) == IF a > b THEN a ELSE b

(***************************************************************************)
(* Char: one styled cell.                                                  *)
(***************************************************************************)
Char(data) ==
    [data |-> data, fg |-> "default", bg |-> "default", bold |-> FALSE,
     italics |-> FALSE, underscore |-> FALSE, strikethrough |-> FALSE,
     reverse |-> FALSE]

default_char == Char(" ")

(***************************************************************************)
(* wcwidth of the characters the model draws: "a", "b" and " " take one    *)
(* cell, "W" stands for a full-width character, "^" for a combining mark   *)
(* and "NUL" for a character that cannot be printed.                       *)
(***************************************************************************)
wcwidth(char) ==
    CASE char = "W" -> 2
      [] char = "^" -> 0
      [] char = "NUL" -> 0 - 1
      [] OTHER -> 1

(***************************************************************************)
(* StaticDefaultDict: a line is a sparse map column -> Char; reading a     *)
(* missing column gives default_char and stores nothing.                   *)
(***************************************************************************)
EmptyLine == [x \in {} |-> default_char]

LineGet(line, x) == IF x \in DOMAIN line THEN line[x] ELSE default_char

LineSet(line, x, c) ==
    [k \in (DOMAIN line) \cup {x} |-> IF k = x THEN c ELSE line[k]]

LinePop(line, x) == [k \in (DOMAIN line) \ {x} |-> line[k]]

(***************************************************************************)
(* The buffer is a defaultdict row -> line: reading a missing row stores   *)
(* an empty line under it (BufTouch), pop removes the key.                 *)
(***************************************************************************)
EmptyBuffer == [y \in {} |-> EmptyLine]

BufTouch(buffer, y) ==
    IF y \in DOMAIN buffer THEN buffer
    ELSE [k \in (DOMAIN buffer) \cup {y} |-> IF k = y THEN EmptyLine ELSE buffer[k]]

BufGet(buffer, y) == IF y \in DOMAIN buffer THEN buffer[y] ELSE EmptyLine

BufSet(buffer, y, line) ==
    [k \in (DOMAIN buffer) \cup {y} |-> IF k = y THEN line ELSE buffer[k]]

BufPop(buffer, y) == [k \in (DOMAIN buffer) \ {y} |-> buffer[k]]

Dirty(s, rows) == [s EXCEPT !.dirty = @ \cup rows]

(***************************************************************************)
(* Screen: cursor bounds and cursor motion.                                *)
(***************************************************************************)
ensure_hbounds(s) ==
    [s EXCEPT !.cursor.x = Min(Max(0, s.cursor.x), s.columns - 1)]

ensure_vbounds(s, use_margins) ==
    LET top == IF use_margins \/ DECOM \in s.mode THEN s.margins.top ELSE 0
        bottom == IF use_margins \/ DECOM \in s.mode
                  THEN s.margins.bottom ELSE s.lines - 1
    IN [s EXCEPT !.cursor.y = Min(Max(top, s.cursor.y), bottom)]

carriage_return(s) == [s EXCEPT !.cursor.x = 0]

cursor_up(s, count) ==
    [s EXCEPT !.cursor.y =
        Max(s.cursor.y - (IF count = 0 THEN 1 ELSE count), s.margins.top)]

cursor_down(s, count) ==
    [s EXCEPT !.cursor.y =
        Min(s.cursor.y + (IF count = 0 THEN 1 ELSE count), s.margins.bottom)]

cursor_up1(s, count) == carriage_return(cursor_up(s, count))

cursor_down1(s, count) == carriage_return(cursor_down(s, count))

cursor_back(s, count) ==
    LET x0 == IF s.cursor.x = s.columns THEN s.cursor.x - 1 ELSE s.cursor.x
    IN ensure_hbounds(
         [s EXCEPT !.cursor.x = x0 - (IF count = 0 THEN 1 ELSE count)])

cursor_forward(s, count) ==
    ensure_hbounds(
      [s EXCEPT !.cursor.x = @ + (IF count = 0 THEN 1 ELSE count)])

cursor_position(s, line, column) ==
    LET column0 == (IF column = 0 THEN 1 ELSE column) - 1
        line0 == (IF line = 0 THEN 1 ELSE line) - 1
        line1 == IF DECOM \in s.mode THEN line0 + s.margins.top ELSE line0
    IN IF DECOM \in s.mode
          /\ ~(s.margins.top <= line1 /\ line1 <= s.margins.bottom)
       THEN s
       ELSE ensure_vbounds(
              ensure_hbounds(
                [s EXCEPT !.cursor.x = column0, !.cursor.y = line1]), FALSE)

cursor_to_column(s, column) ==
    ensure_hbounds(
      [s EXCEPT !.cursor.x = (IF column = 0 THEN 1 ELSE column) - 1])

cursor_to_line(s, line) ==
    LET y0 == (IF line = 0 THEN 1 ELSE line) - 1
        y1 == IF DECOM \in s.mode THEN y0 + s.margins.top ELSE y0
    IN ensure_vbounds([s EXCEPT !.cursor.y = y1], FALSE)

backspace(s) == cursor_back(s, 0)

(***************************************************************************)
(* Tab stops.                                                              *)
(***************************************************************************)
tab(s) ==
    LET after == {stop \in s.tabstops : s.cursor.x < stop}
        column == IF after # {}
                  THEN CHOOSE stop \in after : \A t \in after : stop <= t
                  ELSE s.columns - 1
    IN [s EXCEPT !.cursor.x = column]

set_tab_stop(s) == [s EXCEPT !.tabstops = @ \cup {s.cursor.x}]

clear_tab_stop(s, how) ==
    CASE how = 0 -> [s EXCEPT !.tabstops = @ \ {s.cursor.x}]
      [] how = 3 -> [s EXCEPT !.tabstops = {}]
      [] OTHER -> s

(***************************************************************************)
(* Line and character editing.                                             *)
(***************************************************************************)
RECURSIVE insert_lines_loop(_, _, _, _, _)
insert_lines_loop(buffer, y, last, count, bottom) ==
    IF y < last THEN buffer
    ELSE LET moved == IF y + count <= bottom /\ y \in DOMAIN buffer
                      THEN BufSet(buffer, y + count, buffer[y])
                      ELSE buffer
         IN insert_lines_loop(BufPop(moved, y), y - 1, last, count, bottom)

insert_lines(s, count) ==
    LET n == IF count = 0 THEN 1 ELSE count
        s1 == Dirty(s, Range(s.cursor.y, s.lines))
    IN IF s.margins.top <= s.cursor.y /\ s.cursor.y <= s.margins.bottom
       THEN carriage_return(
              [s1 EXCEPT !.buffer =
                  insert_lines_loop(@, s.margins.bottom, s.cursor.y, n,
                                    s.margins.bottom)])
       ELSE s1

RECURSIVE delete_lines_loop(_, _, _, _)
delete_lines_loop(buffer, y, count, bottom) ==
    IF y > bottom THEN buffer
    ELSE LET next == IF y + count <= bottom
                     THEN IF (y + count) \in DOMAIN buffer
                          THEN BufPop(BufSet(buffer, y, buffer[y + count]),
                                      y + count)
                          ELSE buffer
                     ELSE BufPop(buffer, y)
         IN delete_lines_loop(next, y + 1, count, bottom)

delete_lines(s, count) ==
    LET n == IF count = 0 THEN 1 ELSE count
        s1 == Dirty(s, Range(s.cursor.y, s.lines))
    IN IF s.margins.top <= s.cursor.y /\ s.cursor.y <= s.margins.bottom
       THEN carriage_return(
              [s1 EXCEPT !.buffer =
                  delete_lines_loop(@, s.cursor.y, n, s.margins.bottom)])
       ELSE s1

RECURSIVE insert_characters_loop(_, _, _, _, _)
insert_characters_loop(line, x, last, count, columns) ==
    IF x < last THEN line
    ELSE LET moved == IF x + count <= columns
                      THEN LineSet(line, x + count, LineGet(line, x))
                      ELSE line
         IN insert_characters_loop(LinePop(moved, x), x - 1, last, count,
                                   columns)

insert_characters(s, count) ==
    LET n == IF count = 0 THEN 1 ELSE count
        y == s.cursor.y
        buf == BufTouch(s.buffer, y)
    IN [Dirty(s, {y}) EXCEPT !.buffer =
          BufSet(buf, y,
                 insert_characters_loop(buf[y], s.columns, s.cursor.x, n,
                                        s.columns))]

RECURSIVE delete_characters_loop(_, _, _, _)
delete_characters_loop(line, x, count, columns) ==
    IF x >= columns THEN line
    ELSE LET next == IF x + count <= columns
                     THEN LinePop(LineSet(line, x, LineGet(line, x + count)),
                                  x + count)
                     ELSE LinePop(line, x)
         IN delete_characters_loop(next, x + 1, count, columns)

delete_characters(s, count) ==
    LET n == IF count = 0 THEN 1 ELSE count
        y == s.cursor.y
        buf == BufTouch(s.buffer, y)
    IN [Dirty(s, {y}) EXCEPT !.buffer =
          BufSet(buf, y,
                 delete_characters_loop(buf[y], s.cursor.x, n, s.columns))]

\* line[x] = c for every x of xs
LineFill(line, xs, c) ==
    [k \in (DOMAIN line) \cup xs |-> IF k \in xs THEN c ELSE line[k]]

erase_characters(s, count) ==
    LET n == IF count = 0 THEN 1 ELSE count
        y == s.cursor.y
        xs == Range(s.cursor.x, Min(s.cursor.x + n, s.columns))
        s1 == Dirty(s, {y})
    IN IF xs = {} THEN s1
       ELSE [s1 EXCEPT !.buffer =
               BufSet(@, y, LineFill(BufGet(@, y), xs, s.cursor.attrs))]

\* how outside 0..2 leaves "interval" unbound: UnboundLocalError
erase_in_line_raises(how) == how \notin {0, 1, 2}

erase_in_line(s, how) ==
    LET y == s.cursor.y
        interval == CASE how = 0 -> Range(s.cursor.x, s.columns)
                      [] how = 1 -> Range(0, s.cursor.x + 1)
                      [] how = 2 -> Range(0, s.columns)
                      [] OTHER -> {}
        s1 == Dirty(s, {y})
    IN IF erase_in_line_raises(how) THEN s1
       ELSE [s1 EXCEPT !.buffer =
               BufSet(@, y, LineFill(BufGet(@, y), interval, s.cursor.attrs))]

\* how outside 0..3 leaves "interval" unbound: UnboundLocalError
erase_in_display_raises(how) == how \notin {0, 1, 2, 3}

erase_in_display(s, how) ==
    LET interval == CASE how = 0 -> Range(s.cursor.y + 1, s.lines)
                      [] how = 1 -> Range(0, s.cursor.y)
                      [] how \in {2, 3} -> Range(0, s.lines)
                      [] OTHER -> {}
        erased == [y \in (DOMAIN s.buffer) \cup interval |->
                     IF y \in interval
                     THEN [x \in DOMAIN BufGet(s.buffer, y) |-> s.cursor.attrs]
                     ELSE s.buffer[y]]
        s1 == [Dirty(s, interval) EXCEPT !.buffer = erased]
    IN IF erase_in_display_raises(how) THEN s
       ELSE IF how \in {0, 1} THEN erase_in_line(s1, how) ELSE s1

alignment_display(s) ==
    [Dirty(s, Range(0, s.lines)) EXCEPT !.buffer =
        [y \in (DOMAIN s.buffer) \cup Range(0, s.lines) |->
            IF y \in Range(0, s.lines)
            THEN [x \in (DOMAIN BufGet(s.buffer, y)) \cup Range(0, s.columns) |->
                    IF x \in Range(0, s.columns)
                    THEN [LineGet(BufGet(s.buffer, y), x) EXCEPT !.data = "E"]
                    ELSE s.buffer[y][x]]
            ELSE s.buffer[y]]]

(***************************************************************************)
(* pyte.graphics and pyte.charsets: the tables the screen looks up.        *)
(***************************************************************************)
FG_ANSI ==
    [n \in (30..37) \cup {39} |->
        CASE n = 30 -> "black" [] n = 31 -> "red" [] n = 32 -> "green"
          [] n = 33 -> "brown" [] n = 34 -> "blue" [] n = 35 -> "magenta"
          [] n = 36 -> "cyan" [] n = 37 -> "white" [] OTHER -> "default"]

BG_ANSI == [n \in (40..47) \cup {49} |-> FG_ANSI[n - 10]]

FG_AIXTERM == [n \in 90..97 |-> FG_ANSI[n - 60]]

BG_AIXTERM == [n \in 100..107 |-> FG_ANSI[n - 70]]

\* TEXT: code -> <<attribute, value>>
TEXT ==
    [n \in {1, 3, 4, 7, 9, 22, 23, 24, 27, 29} |->
        CASE n = 1 -> <<"bold", TRUE>> [] n = 3 -> <<"italics", TRUE>>
          [] n = 4 -> <<"underscore", TRUE>> [] n = 7 -> <<"reverse", TRUE>>
          [] n = 9 -> <<"strikethrough", TRUE>> [] n = 22 -> <<"bold", FALSE>>
          [] n = 23 -> <<"italics", FALSE>> [] n = 24 -> <<"underscore", FALSE>>
          [] n = 27 -> <<"reverse", FALSE>>
          [] OTHER -> <<"strikethrough", FALSE>>]

FG_256 == 38

BG_256 == 48

HexDigits ==
    <<"0", "1", "2", "3", "4", "5", "6", "7", "8", "9", "a", "b", "c", "d",
      "e", "f">>

RECURSIVE hex(_)
hex(n) == IF n < 16 THEN HexDigits[n + 1]
          ELSE hex(n \div 16) \o HexDigits[(n % 16) + 1]

\* "{0:02x}".format(n)
hex02(n) == IF n < 16 THEN "0" \o hex(n) ELSE hex(n)

\* the 256-colour palette; only its grey ramp and its primaries are needed
FG_BG_256(m) == hex02(m) \o hex02(m) \o hex02(m)

\* the charset maps, by name; VT100 draws "a" as the checker board
translate(char, map) == IF map = "VT100" /\ char = "a" THEN "#" ELSE char

MAPS == [code \in {"B", "0", "U", "K"} |->
           CASE code = "B" -> "LAT1" [] code = "0" -> "VT100"
             [] code = "U" -> "IBMPC" [] OTHER -> "VAX42"]

combining(char) == char = "^"

(***************************************************************************)
(* select_graphic_rendition.  The attributes are walked front to back; the *)
(* walk gives the cursor attributes and whether "n = attrs.pop()" met an   *)
(* empty list (IndexError outside the try).                                *)
(***************************************************************************)
RECURSIVE sgr_walk(_, _)
sgr_walk(attrs, c) ==
    IF attrs = <<>> THEN [attrs |-> c, raised |-> FALSE]
    ELSE LET attr == Head(attrs)
             rest == Tail(attrs)
         IN CASE attr \in DOMAIN FG_ANSI ->
                   sgr_walk(rest, [c EXCEPT !.fg = FG_ANSI[attr]])
              [] attr \in DOMAIN BG_ANSI ->
                   sgr_walk(rest, [c EXCEPT !.bg = BG_ANSI[attr]])
              [] attr \in DOMAIN TEXT ->
                   sgr_walk(rest, [c EXCEPT ![TEXT[attr][1]] = TEXT[attr][2]])
              [] attr \in DOMAIN FG_AIXTERM ->
                   sgr_walk(rest, [c EXCEPT !.fg = FG_AIXTERM[attr],
                                            !.bold = TRUE])
              [] attr \in DOMAIN BG_AIXTERM ->
                   sgr_walk(rest, [c EXCEPT !.bg = BG_AIXTERM[attr],
                                            !.bold = TRUE])
              [] attr \in {FG_256, BG_256} ->
                   LET key == IF attr = FG_256 THEN "fg" ELSE "bg"
                   IN IF rest = <<>> THEN [attrs |-> c, raised |-> TRUE]
                      ELSE IF rest[1] = 5
                      THEN IF Len(rest) >= 2 /\ rest[2] \in 0..255
                           THEN sgr_walk(SubSeq(rest, 3, Len(rest)),
                                         [c EXCEPT ![key] = FG_BG_256(rest[2])])
                           ELSE sgr_walk(SubSeq(rest, 3, Len(rest)), c)
                      ELSE IF rest[1] = 2
                      THEN IF Len(rest) >= 4
                           THEN sgr_walk(SubSeq(rest, 5, Len(rest)),
                                  [c EXCEPT ![key] = hex02(rest[2])
                                       \o hex02(rest[3]) \o hex02(rest[4])])
                           ELSE sgr_walk(<<>>, c)
                      ELSE sgr_walk(SubSeq(rest, 2, Len(rest)), c)
              [] OTHER -> sgr_walk(rest, c)

select_graphic_rendition_raises(s, attrs) ==
    /\ attrs # <<>>
    /\ attrs # <<0>>
    /\ sgr_walk(attrs, s.cursor.attrs).raised

select_graphic_rendition(s, attrs) ==
    IF attrs = <<>> \/ attrs = <<0>>
    THEN [s EXCEPT !.cursor.attrs = default_char]
    ELSE IF sgr_walk(attrs, s.cursor.attrs).raised THEN s
    ELSE [s EXCEPT !.cursor.attrs = sgr_walk(attrs, s.cursor.attrs).attrs]

(***************************************************************************)
(* Margins, modes, the savepoint stack and resize.                         *)
(***************************************************************************)
\* an argument of set_margins that was left out
None == 0 - 1

set_margins(s, top, bottom) ==
    IF top = None \/ bottom = None
    THEN [s EXCEPT !.margins = [top |-> 0, bottom |-> s.lines - 1]]
    ELSE LET t == Max(0, Min(top - 1, s.lines - 1))
             b == Max(0, Min(bottom - 1, s.lines - 1))
         IN IF b - t >= 1
            THEN cursor_position(
                   [s EXCEPT !.margins = [top |-> t, bottom |-> b]], 0, 0)
            ELSE s

save_cursor(s) ==
    [s EXCEPT !.savepoints =
        Append(@, [cursor |-> s.cursor, g0_charset |-> s.g0_charset,
                   g1_charset |-> s.g1_charset, charset |-> s.charset,
                   origin |-> DECOM \in s.mode, wrap |-> DECAWM \in s.mode])]

SetReverse(buffer, value) ==
    [y \in DOMAIN buffer |->
        [x \in DOMAIN buffer[y] |-> [buffer[y][x] EXCEPT !.reverse = value]]]

\* set_mode after "self.mode.update(modes)" and the DECCOLM branch
set_mode_tail(s, ms) ==
    LET origin(a) == IF DECOM \in ms THEN cursor_position(a, 0, 0) ELSE a
        reversed(a) ==
            IF DECSCNM \in ms
            THEN select_graphic_rendition(
                   [a EXCEPT !.buffer = SetReverse(@, TRUE)], <<7>>)
            ELSE a
        shown(a) == IF DECTCEM \in ms THEN [a EXCEPT !.cursor.hidden = FALSE]
                    ELSE a
    IN shown(reversed(origin(s)))

\* reset_mode after "self.mode.difference_update(modes)" and the DECCOLM branch
reset_mode_tail(s, ms) ==
    LET origin(a) == IF DECOM \in ms THEN cursor_position(a, 0, 0) ELSE a
        reversed(a) ==
            IF DECSCNM \in ms
            THEN select_graphic_rendition(
                   [a EXCEPT !.buffer = SetReverse(@, FALSE)], <<27>>)
            ELSE a
        hidden(a) == IF DECTCEM \in ms THEN [a EXCEPT !.cursor.hidden = TRUE]
                     ELSE a
    IN hidden(reversed(origin(s)))

\* restore_cursor calls set_mode(DECOM), set_mode(DECAWM) and
\* reset_mode(DECOM): none takes the DECCOLM branch
restore_cursor(s) ==
    IF s.savepoints # <<>>
    THEN LET savepoint == s.savepoints[Len(s.savepoints)]
             popped(a) ==
                 [a EXCEPT !.savepoints = SubSeq(@, 1, Len(@) - 1),
                           !.g0_charset = savepoint.g0_charset,
                           !.g1_charset = savepoint.g1_charset,
                           !.charset = savepoint.charset]
             origin(a) ==
                 IF savepoint.origin
                 THEN set_mode_tail([a EXCEPT !.mode = @ \cup {DECOM}], {DECOM})
                 ELSE a
             wrap(a) ==
                 IF savepoint.wrap
                 THEN set_mode_tail([a EXCEPT !.mode = @ \cup {DECAWM}],
                                    {DECAWM})
                 ELSE a
             placed(a) ==
                 ensure_vbounds(
                   ensure_hbounds([a EXCEPT !.cursor = savepoint.cursor]), TRUE)
         IN placed(wrap(origin(popped(s))))
    ELSE cursor_position(
           reset_mode_tail([s EXCEPT !.mode = @ \ {DECOM}], {DECOM}), 0, 0)

resize(s, lines, columns) ==
    LET newlines == IF lines = 0 THEN s.lines ELSE lines
        newcolumns == IF columns = 0 THEN s.columns ELSE columns
        rows(a) ==
            IF s.lines - newlines > 0
            THEN restore_cursor(
                   delete_lines(cursor_position(save_cursor(a), 0, 0),
                                s.lines - newlines))
            ELSE a
        cols(a) ==
            IF s.columns - newcolumns > 0
            THEN [a EXCEPT !.buffer =
                    [y \in DOMAIN @ |->
                       [x \in (DOMAIN @[y]) \ Range(newcolumns, s.columns) |->
                           @[y][x]]]]
            ELSE a
        sized(a) ==
            set_margins([a EXCEPT !.lines = newlines, !.columns = newcolumns],
                        None, None)
        origin(a) == reset_mode_tail([a EXCEPT !.mode = @ \ {DECOM}], {DECOM})
    IN origin(sized(cols(rows(Dirty(s, Range(0, s.lines))))))

set_mode(s, modes, private) ==
    LET ms == IF private THEN {m * 32 : m \in modes} ELSE modes
        marked(a) == IF private /\ DECSCNM \in ms
                     THEN Dirty(a, Range(0, a.lines)) ELSE a
        columns132(a) ==
            IF DECCOLM \in ms
            THEN cursor_position(erase_in_display(resize(a, 0, 132), 2), 0, 0)
            ELSE a
    IN set_mode_tail(columns132([marked(s) EXCEPT !.mode = @ \cup ms]), ms)

reset_mode(s, modes, private) ==
    LET ms == IF private THEN {m * 32 : m \in modes} ELSE modes
        marked(a) == IF private /\ DECSCNM \in ms
                     THEN Dirty(a, Range(0, a.lines)) ELSE a
        columns80(a) ==
            IF DECCOLM \in ms
            THEN cursor_position(erase_in_display(resize(a, 0, 80), 2), 0, 0)
            ELSE a
    IN reset_mode_tail(columns80([marked(s) EXCEPT !.mode = @ \ ms]), ms)

define_charset(s, code, mode) ==
    IF code \in DOMAIN MAPS
    THEN CASE mode = "(" -> [s EXCEPT !.g0_charset = MAPS[code]]
           [] mode = ")" -> [s EXCEPT !.g1_charset = MAPS[code]]
           [] OTHER -> s
    ELSE s

shift_in(s) == [s EXCEPT !.charset = 0]

shift_out(s) == [s EXCEPT !.charset = 1]

(***************************************************************************)
(* Scrolling and drawing.                                                  *)
(***************************************************************************)
RECURSIVE index_loop(_, _, _)
index_loop(buffer, line, bottom) ==
    IF line >= bottom THEN buffer
    ELSE index_loop(BufSet(BufTouch(buffer, line + 1), line,
                           BufGet(buffer, line + 1)),
                    line + 1, bottom)

index(s) ==
    IF s.cursor.y = s.margins.bottom
    THEN [Dirty(s, Range(0, s.lines)) EXCEPT !.buffer =
            BufPop(index_loop(@, s.margins.top, s.margins.bottom),
                   s.margins.bottom)]
    ELSE cursor_down(s, 0)

RECURSIVE reverse_index_loop(_, _, _)
reverse_index_loop(buffer, line, top) ==
    IF line <= top THEN buffer
    ELSE reverse_index_loop(BufSet(BufTouch(buffer, line - 1), line,
                                   BufGet(buffer, line - 1)),
                            line - 1, top)

reverse_index(s) ==
    IF s.cursor.y = s.margins.top
    THEN [Dirty(s, Range(0, s.lines)) EXCEPT !.buffer =
            BufPop(reverse_index_loop(@, s.margins.bottom, s.margins.top),
                   s.margins.top)]
    ELSE cursor_up(s, 0)

linefeed(s) == IF LNM \in s.mode THEN carriage_return(index(s)) ELSE index(s)

\* Does the loop of draw stop at this character?
draw_breaks(char) ==
    ~(wcwidth(char) \in {1, 2} \/ (wcwidth(char) = 0 /\ combining(char)))

\* One turn of the loop of draw: wrap or step back at the right edge,
\* make room in insert mode, put the character, advance the cursor.
draw_char(s, char) ==
    LET char_width == wcwidth(char)
        wrap(a) ==
            IF a.cursor.x = a.columns
            THEN IF DECAWM \in a.mode
                 THEN linefeed(carriage_return(Dirty(a, {a.cursor.y})))
                 ELSE IF char_width > 0
                      THEN [a EXCEPT !.cursor.x = @ - char_width]
                      ELSE a
            ELSE a
        insert(a) ==
            IF IRM \in a.mode /\ char_width > 0
            THEN insert_characters(a, char_width) ELSE a
        put(a) ==
            LET x == a.cursor.x
                y == a.cursor.y
                buf == BufTouch(a.buffer, y)
                cell == [a.cursor.attrs EXCEPT !.data = char]
                stub == [a.cursor.attrs EXCEPT !.data = " "]
            IN CASE char_width = 1 ->
                      [a EXCEPT !.buffer = BufSet(buf, y, LineSet(buf[y], x, cell))]
                 [] char_width = 2 ->
                      [a EXCEPT !.buffer =
                          BufSet(buf, y,
                            IF x + 1 < a.columns
                            THEN LineSet(LineSet(buf[y], x, cell), x + 1, stub)
                            ELSE LineSet(buf[y], x, cell))]
                 [] char_width = 0 /\ combining(char) ->
                      IF x # 0
                      THEN [a EXCEPT !.buffer =
                              BufSet(buf, y,
                                LineSet(buf[y], x - 1,
                                  [LineGet(buf[y], x - 1)
                                      EXCEPT !.data = @ \o char]))]
                      ELSE IF y # 0
                      THEN [a EXCEPT !.buffer =
                              BufSet(buf, y - 1,
                                LineSet(BufGet(buf, y - 1), a.columns - 1,
                                  [LineGet(BufGet(buf, y - 1), a.columns - 1)
                                      EXCEPT !.data = @ \o char]))]
                      ELSE [a EXCEPT !.buffer = buf]
                 [] OTHER -> [a EXCEPT !.buffer = buf]
        advance(a) ==
            IF char_width > 0
            THEN [a EXCEPT !.cursor.x = Min(@ + char_width, a.columns)]
            ELSE a
    IN advance(put(insert(wrap(s))))

RECURSIVE draw_loop(_, _)
draw_loop(s, data) ==
    IF data = <<>> THEN s
    ELSE IF draw_breaks(Head(data)) THEN draw_char(s, Head(data))
    ELSE draw_loop(draw_char(s, Head(data)), Tail(data))

\* data: the characters to draw, as a sequence
draw(s, data) ==
    LET map == IF s.charset # 0 THEN s.g1_charset ELSE s.g0_charset
        mark(a) == Dirty(a, {a.cursor.y})
    IN mark(draw_loop(s, [i \in 1..Len(data) |-> translate(data[i], map)]))

(***************************************************************************)
(* Reports, reset and the constructor.                                     *)
(***************************************************************************)
CSI == "\\x9b"

\* report_device_status(6) without the line "y -= self.margins.top"
report_device_status_data_absolute(s, mode) ==
    CASE mode = 5 -> <<CSI, "0", "n">>
      [] mode = 6 ->
           <<CSI, ToString(s.cursor.y + 1), ";", ToString(s.cursor.x + 1),
             "R">>
      [] OTHER -> <<>>

\* The argument report_device_status gives write_process_input: its bytes.
report_device_status_data(s, mode) ==
    CASE mode = 5 -> <<CSI, "0", "n">>
      [] mode = 6 ->
           <<CSI,
             ToString(IF DECOM \in s.mode
                      THEN s.cursor.y + 1 - s.margins.top
                      ELSE s.cursor.y + 1),
             ";", ToString(s.cursor.x + 1), "R">>
      [] OTHER -> <<>>

\* By default a noop, and nothing overrides it.
write_process_input(s, data) == s

report_device_status(s, mode) ==
    IF mode \in {5, 6}
    THEN write_process_input(s, report_device_status_data(s, mode))
    ELSE s

Cursor(x, y) == [x |-> x, y |-> y, attrs |-> default_char, hidden |-> FALSE]

reset(s) ==
    cursor_position(
      [Dirty(s, Range(0, s.lines)) EXCEPT
          !.buffer = EmptyBuffer,
          !.mode = {DECAWM, DECTCEM},
          !.margins = [top |-> 0, bottom |-> s.lines - 1],
          !.charset = 0,
          !.g0_charset = "LAT1",
          !.g1_charset = "VT100",
          !.tabstops = {7 + 8 * k : k \in 0..(s.columns \div 8)}
                          \cap Range(7, s.columns),
          !.cursor = Cursor(0, 0)], 0, 0)

\* Screen(columns, lines)
Screen(columns, lines) ==
    reset([lines |-> lines, columns |-> columns, buffer |-> EmptyBuffer,
           dirty |-> {}, mode |-> {}, margins |-> [top |-> 0, bottom |-> 0],
           charset |-> 0, g0_charset |-> "LAT1", g1_charset |-> "VT100",
           tabstops |-> {}, cursor |-> Cursor(0, 0), savepoints |-> <<>>])

(***************************************************************************)
(* pyte.control and pyte.escape: the characters the parser tells apart.    *)
(* A character is a string; a control character goes by its name.          *)
(***************************************************************************)
ESC == "ESC"

NUL_OR_DEL == {"NUL", "DEL"}

CAN_OR_SUB == {"CAN", "SUB"}

ALLOWED_IN_CSI == {"BEL", "BS", "HT", "LF", "VT", "FF", "CR"}

Digits == {"0", "1", "2", "3", "4", "5", "6", "7", "8", "9"}

DigitValue(char) ==
    CASE char = "0" -> 0 [] char = "1" -> 1 [] char = "2" -> 2
      [] char = "3" -> 3 [] char = "4" -> 4 [] char = "5" -> 5
      [] char = "6" -> 6 [] char = "7" -> 7 [] char = "8" -> 8
      [] OTHER -> 9

\* Stream.basic, Stream.escape, Stream.sharp, Stream.percent and Stream.csi;
\* a character outside a table resolves to "debug"
basic(char) ==
    CASE char = "BEL" -> "bell" [] char = "BS" -> "backspace"
      [] char = "HT" -> "tab" [] char \in {"LF", "VT", "FF"} -> "linefeed"
      [] char = "CR" -> "carriage_return" [] char = "SO" -> "shift_out"
      [] char = "SI" -> "shift_in" [] OTHER -> "debug"

escape(char) ==
    CASE char = "c" -> "reset" [] char = "D" -> "index"
      [] char = "E" -> "linefeed" [] char = "M" -> "reverse_index"
      [] char = "H" -> "set_tab_stop" [] char = "7" -> "save_cursor"
      [] char = "8" -> "restore_cursor" [] OTHER -> "debug"

sharp(char) == IF char = "8" THEN "alignment_display" ELSE "debug"

percent(char) ==
    CASE char = "@" -> "charset_default"
      [] char \in {"G", "8"} -> "charset_utf8"
      [] OTHER -> "debug"

csi(char) ==
    CASE char = "@" -> "insert_characters" [] char = "A" -> "cursor_up"
      [] char = "B" -> "cursor_down" [] char = "C" -> "cursor_forward"
      [] char = "D" -> "cursor_back" [] char = "E" -> "cursor_down1"
      [] char = "F" -> "cursor_up1" [] char = "G" -> "cursor_to_column"
      [] char = "H" -> "cursor_position" [] char = "J" -> "erase_in_display"
      [] char = "K" -> "erase_in_line" [] char = "L" -> "insert_lines"
      [] char = "M" -> "delete_lines" [] char = "P" -> "delete_characters"
      [] char = "X" -> "erase_characters" [] char = "a" -> "cursor_forward"
      [] char = "c" -> "report_device_attributes"
      [] char = "d" -> "cursor_to_line" [] char = "e" -> "cursor_down"
      [] char = "f" -> "cursor_position" [] char = "g" -> "clear_tab_stop"
      [] char = "h" -> "set_mode" [] char = "l" -> "reset_mode"
      [] char = "m" -> "select_graphic_rendition"
      [] char = "n" -> "report_device_status" [] char = "r" -> "set_margins"
      [] char = "'" -> "cursor_to_column" [] OTHER -> "debug"

(***************************************************************************)
(* Stream.dispatch on a Screen: the handler is called with the arguments   *)
(* and the keywords.  The call itself                                      *)
(* raises TypeError when the handler takes fewer positional arguments than *)
(* it is given, misses a required one, or has no "private" keyword; an     *)
(* event the screen has no method for is skipped.                          *)
(***************************************************************************)
NoHandler == {"set_charset", "charset_default", "charset_utf8"}

\* the most positional arguments a handler takes; -1: any number
MaxArgs(event) ==
    CASE event \in {"set_mode", "reset_mode", "select_graphic_rendition",
                    "bell", "debug"} -> 0 - 1
      [] event \in {"cursor_position", "set_margins", "erase_in_line",
                    "erase_in_display"} -> 2
      [] event \in {"insert_lines", "delete_lines", "insert_characters",
                    "delete_characters", "erase_characters", "clear_tab_stop",
                    "cursor_up", "cursor_up1", "cursor_down", "cursor_down1",
                    "cursor_back", "cursor_forward", "cursor_to_column",
                    "cursor_to_line", "report_device_attributes",
                    "report_device_status", "draw"} -> 1
      [] OTHER -> 0

\* does the handler take private=True, by name or through **kwargs?
TakesPrivate(event, args) ==
    \/ event \in {"set_mode", "reset_mode", "report_device_attributes", "debug"}
    \/ event \in {"erase_in_line", "erase_in_display"} /\ Len(args) < 2

call_raises(event, args, private) ==
    /\ event \notin NoHandler
    /\ \/ MaxArgs(event) >= 0 /\ Len(args) > MaxArgs(event)
       \/ event = "report_device_status" /\ Len(args) = 0
       \/ private /\ ~TakesPrivate(event, args)

\* the i-th positional argument, or the default of the parameter
Arg(args, i, default) == IF i <= Len(args) THEN args[i] ELSE default

handler_raises(s, event, args) ==
    CASE event = "erase_in_line" -> erase_in_line_raises(Arg(args, 1, 0))
      [] event = "erase_in_display" -> erase_in_display_raises(Arg(args, 1, 0))
      [] event = "select_graphic_rendition" ->
           select_graphic_rendition_raises(s, args)
      [] OTHER -> FALSE

dispatch_raises(s, event, args, private) ==
    call_raises(event, args, private)
      \/ (event \notin NoHandler /\ handler_raises(s, event, args))

\* the handler's effect on the screen; where the handler raises, the
\* effect up to the raise
handle(s, event, args, private) ==
    CASE event = "backspace" -> backspace(s)
      [] event = "tab" -> tab(s)
      [] event = "linefeed" -> linefeed(s)
      [] event = "carriage_return" -> carriage_return(s)
      [] event = "shift_out" -> shift_out(s)
      [] event = "shift_in" -> shift_in(s)
      [] event = "reset" -> reset(s)
      [] event = "index" -> index(s)
      [] event = "reverse_index" -> reverse_index(s)
      [] event = "set_tab_stop" -> set_tab_stop(s)
      [] event = "save_cursor" -> save_cursor(s)
      [] event = "restore_cursor" -> restore_cursor(s)
      [] event = "alignment_display" -> alignment_display(s)
      [] event = "insert_characters" -> insert_characters(s, Arg(args, 1, 0))
      [] event = "cursor_up" -> cursor_up(s, Arg(args, 1, 0))
      [] event = "cursor_down" -> cursor_down(s, Arg(args, 1, 0))
      [] event = "cursor_forward" -> cursor_forward(s, Arg(args, 1, 0))
      [] event = "cursor_back" -> cursor_back(s, Arg(args, 1, 0))
      [] event = "cursor_down1" -> cursor_down1(s, Arg(args, 1, 0))
      [] event = "cursor_up1" -> cursor_up1(s, Arg(args, 1, 0))
      [] event = "cursor_to_column" -> cursor_to_column(s, Arg(args, 1, 0))
      [] event = "cursor_to_line" -> cursor_to_line(s, Arg(args, 1, 0))
      [] event = "cursor_position" ->
           cursor_position(s, Arg(args, 1, 0), Arg(args, 2, 0))
      [] event = "erase_in_display" -> erase_in_display(s, Arg(args, 1, 0))
      [] event = "erase_in_line" -> erase_in_line(s, Arg(args, 1, 0))
      [] event = "insert_lines" -> insert_lines(s, Arg(args, 1, 0))
      [] event = "delete_lines" -> delete_lines(s, Arg(args, 1, 0))
      [] event = "delete_characters" -> delete_characters(s, Arg(args, 1, 0))
      [] event = "erase_characters" -> erase_characters(s, Arg(args, 1, 0))
      [] event = "clear_tab_stop" -> clear_tab_stop(s, Arg(args, 1, 0))
      [] event = "set_mode" ->
           set_mode(s, {args[i] : i \in 1..Len(args)}, private)
      [] event = "reset_mode" ->
           reset_mode(s, {args[i] : i \in 1..Len(args)}, private)
      [] event = "select_graphic_rendition" -> select_graphic_rendition(s, args)
      [] event = "report_device_status" -> report_device_status(s, args[1])
      [] event = "set_margins" ->
           set_margins(s, Arg(args, 1, None), Arg(args, 2, None))
      [] event = "draw" -> draw(s, args)
      [] OTHER -> s

dispatch(s, event, args, private) ==
    IF event \in NoHandler \/ call_raises(event, args, private) THEN s
    ELSE handle(s, event, args, private)

(***************************************************************************)
(* Stream._parser_fsm: the generator, one send(char) at a time.  The       *)
(* stream record holds what the generator keeps between two sends: the     *)
(* branch it waits in (state), params, current (by its value: the code     *)
(* only reads int(current or 0)), private, the charset mode, and whether   *)
(* the generator is still alive.  An exception out of a handler ends the   *)
(* generator where it stands.  Back at the top of its loop the generator   *)
(* assigns params, current and private before it reads them again, so the  *)
(* record keeps them only while a sequence is being read.                  *)
(***************************************************************************)
Stream ==
    [state |-> "stream", params |-> <<>>, current |-> 0, private |-> FALSE,
     mode |-> "", alive |-> TRUE]

arguments == [Stream EXCEPT !.state = "arguments"]

\* What the generator does with one character: the record it goes on with
\* (stream), and the event it dispatches first, if any (event, args, private),
\* after which it waits in the branch next.
Wait(st) ==
    [stream |-> st, next |-> st.state, event |-> "", args |-> <<>>,
     private |-> FALSE]

Call(st, next, event, args, private) ==
    [stream |-> st, next |-> next, event |-> event, args |-> args,
     private |-> private]

decode(st, char) ==
    CASE st.state = "stream" ->
           IF char = ESC THEN Wait([st EXCEPT !.state = "escape"])
           ELSE IF basic(char) # "debug"
           THEN Call(st, "stream", basic(char), <<>>, FALSE)
           ELSE IF char = CSI THEN Wait(arguments)
           ELSE IF char \notin NUL_OR_DEL
           THEN Call(st, "stream", "draw", <<char>>, FALSE)
           ELSE Wait(st)
      [] st.state = "escape" ->
           IF char = "[" THEN Wait(arguments)
           ELSE IF char = "#" THEN Wait([st EXCEPT !.state = "sharp"])
           ELSE IF char = "%" THEN Wait([st EXCEPT !.state = "percent"])
           ELSE IF char \in {"(", ")"}
           THEN Wait([st EXCEPT !.state = "charset", !.mode = char])
           ELSE Call(st, "stream", escape(char), <<>>, FALSE)
      [] st.state = "sharp" ->
           \* dispatch(sharp[char]); the else branch of the "%" test then
           \* dispatches escape["#"], which is debug
           Call(st, "stream", sharp(char), <<>>, FALSE)
      [] st.state = "percent" ->
           Call(st, "stream", percent(char), <<>>, FALSE)
      [] st.state = "charset" ->
           Call(st, "stream", "set_charset", <<char>>, FALSE)
      [] OTHER ->
           IF char = "?" THEN Wait([st EXCEPT !.private = TRUE])
           ELSE IF char \in ALLOWED_IN_CSI
           THEN Call(st, "arguments", basic(char), <<>>, FALSE)
           ELSE IF char \in {" ", ">"} THEN Wait(st)
           ELSE IF char \in CAN_OR_SUB
           THEN Call(st, "stream", "draw", <<char>>, FALSE)
           ELSE IF char \in Digits
           THEN Wait([st EXCEPT !.current =
                         Min(@ * 10 + DigitValue(char), 9999)])
           ELSE IF char = ";"
           THEN Wait([st EXCEPT !.params = Append(@, st.current),
                                !.current = 0])
           ELSE Call([st EXCEPT !.params = Append(@, st.current)], "stream",
                     csi(char), Append(st.params, st.current), st.private)

\* send(char): the generator runs to its next yield, or ends in the
\* exception a handler raised
send(st, sc, char) ==
    LET run(d) ==
            IF d.event = "" THEN [stream |-> d.stream, screen |-> sc]
            ELSE [stream |->
                     IF dispatch_raises(sc, d.event, d.args, d.private)
                     THEN [d.stream EXCEPT !.alive = FALSE]
                     ELSE IF d.next = "stream" THEN Stream ELSE d.stream,
                  screen |-> dispatch(sc, d.event, d.args, d.private)]
    IN run(decode(st, char))

\* Stream.feed: send every character; a send into a generator that has
\* ended raises StopIteration, and so does every later feed
RECURSIVE feed(_, _, _)
feed(st, sc, chars) ==
    IF chars = <<>> \/ ~st.alive THEN [stream |-> st, screen |-> sc]
    ELSE LET next(r) == feed(r.stream, r.screen, Tail(chars))
         IN next(send(st, sc, Head(chars)))

feed_raises(st, sc, chars) == chars # <<>> /\ ~feed(st, sc, chars).stream.alive

(***************************************************************************)
(* pyte_terminal_emulator.CustomHistoryScreen keeps its rows in a list,    *)
(* buffer[1] the top row, and a row is the list of its cells.  The two     *)
(* history queues are deques of rows with a maximum length, left end       *)
(* first.  history.ratio is a fraction, num / den.                         *)
(***************************************************************************)
\* take(n, self.default_line)
take(n) == [x \in 1..n |-> default_char]

\* deque.extend(rows): what goes over maxlen falls off the left end
extend(queue, rows, maxlen) ==
    LET all == queue \o rows
    IN IF Len(all) > maxlen
       THEN SubSeq(all, Len(all) - maxlen + 1, Len(all)) ELSE all

\* deque.extendleft(reversed(rows)): the rows go in front in their order,
\* what goes over maxlen falls off the right end
extendleft(queue, rows, maxlen) ==
    LET all == rows \o queue
    IN IF Len(all) > maxlen THEN SubSeq(all, 1, maxlen) ELSE all

\* terminal_view_scroll_ratio, 0.5 unless set otherwise
Half == [num |-> 1, den |-> 2]

\* int(math.ceil(lines * ratio))
ceil(lines, ratio) == (lines * ratio.num + ratio.den - 1) \div ratio.den

CustomHistoryScreen(columns, lines, history, ratio) ==
    [columns |-> columns, lines |-> lines,
     buffer |-> [y \in 1..lines |-> take(columns)],
     dirty |-> Range(0, lines),
     mode |-> {DECAWM, DECTCEM},
     margins |-> [top |-> 0, bottom |-> lines - 1],
     cursor |-> Cursor(0, 0),
     tabstops |-> {x \in Range(8, columns) : x % 8 = 0},
     history |-> [top |-> <<>>, bottom |-> <<>>, ratio |-> ratio,
                  size |-> history, position |-> history]]

\* next_page that moves position by one line in place of a page
next_page_one_line(s) ==
    LET h == s.history
        mid == Min(Len(h.bottom), ceil(s.lines, h.ratio))
    IN IF h.position < h.size /\ h.bottom # <<>>
       THEN [s EXCEPT
               !.history.top =
                   extend(h.top, SubSeq(s.buffer, 1, mid), h.size \div 2),
               !.history.position = h.position + 1,
               !.history.bottom = SubSeq(h.bottom, mid + 1, Len(h.bottom)),
               !.buffer = SubSeq(s.buffer, mid + 1, Len(s.buffer))
                            \o SubSeq(h.bottom, 1, mid),
               !.dirty = Range(0, s.lines)]
       ELSE s

next_page(s) ==
    LET h == s.history
        mid == Min(Len(h.bottom), ceil(s.lines, h.ratio))
    IN IF h.position < h.size /\ h.bottom # <<>>
       THEN [s EXCEPT
               !.history.top =
                   extend(h.top, SubSeq(s.buffer, 1, mid), h.size \div 2),
               !.history.position = h.position + s.lines,
               !.history.bottom = SubSeq(h.bottom, mid + 1, Len(h.bottom)),
               !.buffer = SubSeq(s.buffer, mid + 1, Len(s.buffer))
                            \o SubSeq(h.bottom, 1, mid),
               !.dirty = Range(0, s.lines)]
       ELSE s

\* prev_page without its reversed(): the lines of top in the order popped
prev_page_popped(s) ==
    LET h == s.history
        mid == Min(Len(h.top), ceil(s.lines, h.ratio))
        n == Len(s.buffer)
    IN IF h.position > s.lines /\ h.top # <<>>
       THEN [s EXCEPT
               !.history.bottom =
                   extendleft(h.bottom, SubSeq(s.buffer, n - mid + 1, n),
                              h.size),
               !.history.position = h.position - s.lines,
               !.history.top = SubSeq(h.top, 1, Len(h.top) - mid),
               !.buffer = [y \in 1..mid |-> h.top[Len(h.top) + 1 - y]]
                            \o SubSeq(s.buffer, 1, n - mid),
               !.dirty = Range(0, s.lines)]
       ELSE s

prev_page(s) ==
    LET h == s.history
        mid == Min(Len(h.top), ceil(s.lines, h.ratio))
        n == Len(s.buffer)
    IN IF h.position > s.lines /\ h.top # <<>>
       THEN [s EXCEPT
               !.history.bottom =
                   extendleft(h.bottom, SubSeq(s.buffer, n - mid + 1, n),
                              h.size),
               !.history.position = h.position - s.lines,
               !.history.top = SubSeq(h.top, 1, Len(h.top) - mid),
               !.buffer = SubSeq(h.top, Len(h.top) - mid + 1, Len(h.top))
                            \o SubSeq(s.buffer, 1, n - mid),
               !.dirty = Range(0, s.lines)]
       ELSE s

\* scroll_to_bottom with an if in the place of its while
scroll_to_bottom_once(s) == next_page(s)

\* the loop ends when position reaches size; with position < size and an
\* empty bottom queue next_page changes nothing and the loop never ends
RECURSIVE scroll_to_bottom(_)
scroll_to_bottom(s) ==
    IF s.history.position < s.history.size /\ s.history.bottom # <<>>
    THEN scroll_to_bottom(next_page(s))
    ELSE s

scroll_to_bottom_hangs(s) ==
    LET stuck(a) == a.history.position < a.history.size
    IN stuck(scroll_to_bottom(s))

ensure_screen_width(s) ==
    LET fit(line) ==
            IF Len(line) > s.columns THEN SubSeq(line, 1, s.columns)
            ELSE line \o take(s.columns - Len(line))
        away == IF s.history.position > s.history.size
                THEN s.history.position - s.history.size
                ELSE s.history.size - s.history.position
    IN [s EXCEPT
          !.buffer = [y \in 1..Len(s.buffer) |-> fit(s.buffer[y])],
          !.cursor.hidden = ~(away < s.lines /\ DECTCEM \in s.mode)]

\* Screen.index of the base class on the list of rows: at the bottom margin
\* the top row of the region goes and an empty row comes in at the bottom
super_index(s) ==
    LET top == s.margins.top
        bottom == s.margins.bottom
    IN IF s.cursor.y = bottom
       THEN [s EXCEPT
               !.buffer = SubSeq(@, 1, top) \o SubSeq(@, top + 2, bottom + 1)
                            \o <<take(s.columns)>>
                            \o SubSeq(@, bottom + 2, Len(@)),
               !.dirty = Range(0, s.lines)]
       ELSE cursor_down(s, 0)

\* Screen.reverse_index of the base class on the list of rows
super_reverse_index(s) ==
    LET top == s.margins.top
        bottom == s.margins.bottom
    IN IF s.cursor.y = top
       THEN [s EXCEPT
               !.buffer = SubSeq(@, 1, top) \o <<take(s.columns)>>
                            \o SubSeq(@, top + 1, bottom)
                            \o SubSeq(@, bottom + 2, Len(@)),
               !.dirty = Range(0, s.lines)]
       ELSE cursor_up(s, 0)

\* index that keeps the row on the bottom margin in place of the row on
\* the top margin
history_index_bottom_row(s) ==
    LET pushed == IF s.cursor.y = s.margins.bottom
                  THEN [s EXCEPT !.history.top =
                          extend(@, <<s.buffer[s.margins.bottom + 1]>>,
                                 s.history.size \div 2)]
                  ELSE s
    IN super_index(pushed)

\* CustomHistoryScreen.index
history_index(s) ==
    LET pushed == IF s.cursor.y = s.margins.bottom
                  THEN [s EXCEPT !.history.top =
                          extend(@, <<s.buffer[s.margins.top + 1]>>,
                                 s.history.size \div 2)]
                  ELSE s
    IN super_index(pushed)

\* CustomHistoryScreen.reverse_index
history_reverse_index(s) ==
    LET pushed == IF s.cursor.y = s.margins.top
                  THEN [s EXCEPT !.history.bottom =
                          extend(@, <<s.buffer[s.margins.bottom + 1]>>,
                                 s.history.size)]
                  ELSE s
    IN super_reverse_index(pushed)

\* Screen.linefeed of the base class, index being the overloaded one
history_linefeed(s) ==
    LET cr(a) == IF LNM \in a.mode THEN carriage_return(a) ELSE a
    IN cr(history_index(s))

\* Screen.draw of the base class for one character one cell wide, IRM
\* reset: line[cursor.x] = ... raises IndexError on a row that is too
\* short, after the wrap has happened
history_draw_wrap(s) ==
    IF s.cursor.x = s.columns
    THEN IF DECAWM \in s.mode
         THEN history_linefeed(carriage_return(Dirty(s, {s.cursor.y})))
         ELSE [s EXCEPT !.cursor.x = @ - 1]
    ELSE s

history_draw_raises(s) ==
    LET short(a) == a.cursor.x >= Len(a.buffer[a.cursor.y + 1])
    IN short(history_draw_wrap(s))

history_draw(s, char) ==
    LET put(a) ==
            IF a.cursor.x >= Len(a.buffer[a.cursor.y + 1]) THEN a
            ELSE Dirty([a EXCEPT
                          !.buffer[a.cursor.y + 1][a.cursor.x + 1] =
                              [a.cursor.attrs EXCEPT !.data = char],
                          !.cursor.x = Min(@ + 1, a.columns)],
                       {a.cursor.y})
    IN put(history_draw_wrap(s))

\* CustomHistoryScreen.resize
history_resize(s, lines0, columns0) ==
    LET lines == IF lines0 = 0 THEN s.lines ELSE lines0
        columns == IF columns0 = 0 THEN s.columns ELSE columns0
        line_diff == s.lines - lines
        col_diff == s.columns - columns
        n == Len(s.buffer)
        isspace == /\ \E y \in (n - line_diff + 1)..n : s.buffer[y] # <<>>
                   /\ \A y \in (n - line_diff + 1)..n :
                         \A x \in 1..Len(s.buffer[y]) :
                             s.buffer[y][x].data = " "
        rows(b) ==
            IF line_diff < 0
            THEN b \o [y \in 1..(0 - line_diff) |-> take(s.columns)]
            ELSE IF line_diff > 0
            THEN IF isspace THEN SubSeq(b, 1, n - line_diff)
                 ELSE SubSeq(b, line_diff + 1, n)
            ELSE b
        cols(b) ==
            IF col_diff < 0
            THEN [y \in 1..Len(b) |->
                    IF y <= lines THEN b[y] \o take(0 - col_diff) ELSE b[y]]
            ELSE IF col_diff > 0
            THEN [y \in 1..Len(b) |->
                    SubSeq(b[y], 1, Min(columns, Len(b[y])))]
            ELSE b
        sized(b) ==
            [s EXCEPT !.buffer = b, !.lines = lines, !.columns = columns,
                      !.margins = [top |-> 0, bottom |-> lines - 1],
                      !.tabstops = {x \in Range(8, columns) : x % 8 = 0}]
    IN ensure_hbounds(ensure_vbounds(sized(cols(rows(s.buffer))), TRUE))

\* Screen.display of the base class on the list of rows: the characters of
\* each row, one after the other, none of them wider than a cell
display(s) ==
    [y \in 1..s.lines |-> [x \in 1..s.columns |-> s.buffer[y][x].data]]

(***************************************************************************)
(* pyte_terminal_emulator.PyteTerminalEmulator: the screen, the parser of  *)
(* its byte stream and the modified flag.                                  *)
(***************************************************************************)
PyteTerminalEmulator(cols, lines, history, ratio) ==
    [screen |-> CustomHistoryScreen(cols, lines, history * 2, ratio),
     stream |-> Stream,
     modified |-> TRUE]

\* Stream.dispatch on the CustomHistoryScreen, for the events of the data
\* the model feeds
\* CustomHistoryScreen.reset, the second definition of the class body,
\* which is the one the class has: Screen.reset, then reset_history
history_reset(s) ==
    [CustomHistoryScreen(s.columns, s.lines, s.history.size, s.history.ratio)
       EXCEPT !.dirty = s.dirty \cup Range(0, s.lines),
              !.tabstops = {x \in Range(7, s.columns) : x % 8 = 7}]

history_dispatch(s, event, args) ==
    CASE event = "draw" -> history_draw(s, args[1])
      [] event = "linefeed" -> history_linefeed(s)
      [] event = "index" -> history_index(s)
      [] event = "reverse_index" -> history_reverse_index(s)
      [] event = "tab" -> tab(s)
      [] event = "carriage_return" -> carriage_return(s)
      [] event = "reset" -> history_reset(s)
      [] event = "select_graphic_rendition" ->
           select_graphic_rendition(s, args)
      [] OTHER -> s

\* ByteStream.feed: a handler that raises ends the parser's generator
RECURSIVE bytestream_feed(_, _, _)
bytestream_feed(st, sc, data) ==
    IF data = <<>> \/ ~st.alive THEN [stream |-> st, screen |-> sc]
    ELSE LET run(d) ==
                 IF d.event = "" THEN bytestream_feed(d.stream, sc, Tail(data))
                 ELSE IF d.event = "draw" /\ history_draw_raises(sc)
                 THEN [stream |-> [d.stream EXCEPT !.alive = FALSE],
                       screen |-> history_draw_wrap(sc)]
                 ELSE bytestream_feed(
                        IF d.next = "stream" THEN Stream ELSE d.stream,
                        history_dispatch(sc, d.event, d.args), Tail(data))
         IN run(decode(st, Head(data)))

\* PyteTerminalEmulator.feed does not set modified when the feed raises
emulator_feed(emu, data) ==
    LET fed(r) == [emu EXCEPT !.screen = r.screen, !.stream = r.stream,
                              !.modified = @ \/ r.stream.alive]
    IN fed(bytestream_feed(emu.stream, scroll_to_bottom(emu.screen), data))

\* PyteTerminalEmulator.resize
emulator_resize(emu, lines, cols) ==
    LET all(a) == Dirty(a, Range(0, Max(lines, a.lines)))
    IN [emu EXCEPT
          !.screen = history_resize(all(scroll_to_bottom(@)), lines, cols),
          !.modified = TRUE]

\* PyteTerminalEmulator.prev_page
emulator_prev_page(emu) ==
    [emu EXCEPT !.screen = ensure_screen_width(prev_page(@)),
                !.modified = TRUE]

\* PyteTerminalEmulator.next_page
emulator_next_page(emu) ==
    [emu EXCEPT !.screen = ensure_screen_width(next_page(@)),
                !.modified = TRUE]

\* PyteTerminalEmulator.dirty_lines; order: the order in which the for loop
\* meets the rows of the dirty set.  The result maps a row to its text.
RECURSIVE dirty_lines_loop(_, _, _)
dirty_lines_loop(rows, order, result) ==
    IF order = <<>> THEN result
    ELSE IF Head(order) >= Len(rows) THEN result
    ELSE dirty_lines_loop(rows, Tail(order),
                          [r \in (DOMAIN result) \cup {Head(order)} |->
                              IF r = Head(order) THEN rows[r + 1]
                              ELSE result[r]])

dirty_lines(emu, order) ==
    IF Cardinality(emu.screen.dirty) > 0
    THEN dirty_lines_loop(display(emu.screen), order, <<>>)
    ELSE <<>>

\* PyteTerminalEmulator.clear_dirty
clear_dirty(emu) == [emu EXCEPT !.modified = FALSE, !.screen.dirty = {}]

(***************************************************************************)
(* The state.                                                              *)
(***************************************************************************)
\* linux_pty.LinuxPty: the child process, what was written to its input and
\* the output of it that was not read yet.  process "None": _process is None
\* winsize: the window size of the pty, set by TIOCSWINSZ
\* signals: the signals that stop sent to the child
LinuxPty ==
    [process |-> "running", input |-> <<>>, output |-> <<>>,
     winsize |-> <<0, 0>>, signals |-> <<>>]

\* update_screen_size up to os.kill: "if self.is_running" tests the bound
\* method, which is always true, so the ioctl is always made
update_screen_size(sh, lines, columns) ==
    [sh EXCEPT !.winsize = <<lines, columns>>]

is_running(sh) == sh.process = "running"

send_string(sh, string) ==
    IF is_running(sh) THEN [sh EXCEPT !.input = Append(@, string)] ELSE sh

\* LinuxPty.receive_output: the data read; << >> stands for None, nothing
\* to read or no process to read from
receive_output(sh) ==
    IF ~is_running(sh) \/ sh.output = <<>> THEN <<>> ELSE Head(sh.output)

\* LinuxPty.stop: Popen.kill sends SIGKILL
stop(sh) ==
    [sh EXCEPT !.process = "None",
               !.signals = IF is_running(sh) THEN Append(@, "SIGKILL")
                           ELSE @]

\* linux_pty.LinuxPty defines no exit_status: the call raises AttributeError
exit_status_raises == TRUE

(***************************************************************************)
(* TerminalView.TerminalView after run(): the session, with the registry   *)
(* of TerminalViewManager (term_views, the ids registered) and the host    *)
(* view (valid until closed, its size in rows and columns).  pc is where   *)
(* the thread of _main_update_loop stands: "RUN" in the loop, "STOPPING"   *)
(* after the break, "DONE" after _stop, "RAISED" ended by the exception    *)
(* that raised names.                                                      *)
(***************************************************************************)
ViewId == 1

TerminalView(keep_open) ==
    [pc |-> "RUN", raised |-> "", keep_open |-> keep_open,
     shell_is_running |-> TRUE, terminal_buffer_is_open |-> TRUE,
     terminal_rows |-> 0, terminal_columns |-> 0,
     term_views |-> {ViewId},
     view_valid |-> TRUE, view_size |-> <<FacadeLines, FacadeColumns>>,
     activate_args |-> TRUE, cwd |-> "cwd"]

\* TerminalViewManager.load_from_id
load_from_id(t, uid) == IF uid \in t.term_views THEN uid ELSE None

\* TerminalView._stop
stop_session(t) ==
    [t EXCEPT !.pc = "DONE",
              !.view_valid = @ /\ t.keep_open,
              !.terminal_buffer_is_open = t.keep_open,
              !.shell_is_running = FALSE,
              !.term_views = @ \ {ViewId},
              !.activate_args = FALSE]

\* sublime_terminal_buffer.SublimeTerminalBuffer with its view, after
\* __init__.  view_content_cache: SublimeViewContentCache._buffer_contents,
\* a row to the line shown for it; text: the characters of the view;
\* replaced: the calls of view.replace of the last terminal_view_update, each
\* <<start, end, content>>; scroll: the setting terminal_view_scroll, << >>
\* for None; color_map: the colour map of the last terminal_view_update;
\* right_margin, bottom_margin: the settings terminal_view_right_margin and
\* terminal_view_bottom_margin; viewport_extent (width, height),
\* line_height, em_width: what the view tells of its layout, in pixels;
\* update: where the command terminal_view_update of the view stands,
\* "idle" when none is asked for, "queued" once run_command has asked for
\* it, "painted" after _update_lines and before clear_dirty;
\* calls: the calls the last terminal_view_update made on the view, in
\* their order; last_cursor_pos: the setting terminal_view_last_cursor_pos,
\* <<>> for None
SublimeTerminalBuffer ==
    [view_content_cache |-> <<>>, text |-> <<>>, replaced |-> <<>>,
     scroll |-> <<>>, color_map |-> <<>>,
     right_margin |-> 3, bottom_margin |-> 0,
     viewport_extent |-> <<0, 0>>, line_height |-> 0, em_width |-> 0,
     update |-> "idle", calls |-> <<>>, last_cursor_pos |-> <<>>]

VARIABLES screen, stream, shell, emulator, session, terminal_buffer

vars == <<screen, stream, shell, emulator, session, terminal_buffer>>

\* a call of a Screen method from outside the parser
ScreenOp(s) == screen' = s /\ UNCHANGED <<stream, shell, emulator, session, terminal_buffer>>

(***************************************************************************)
(* SpecScreen: a Screen driven through its cursor, margin, mode, scrolling *)
(* and drawing operations.                                                 *)
(***************************************************************************)
InitScreen ==
    /\ terminal_buffer = SublimeTerminalBuffer
    /\ screen = Screen(MaxColumns, MaxLines)
    /\ stream = Stream
    /\ shell = LinuxPty
    /\ emulator = PyteTerminalEmulator(FacadeColumns, FacadeLines, 1, Half)
    /\ session = TerminalView(FALSE)

\* one disjunct for each Screen method called
NextScreen ==
    \/ \E ch \in {"a"} : ScreenOp(draw(screen, <<ch>>))
    \/ ScreenOp(tab(screen))
    \/ ScreenOp(set_tab_stop(screen))
    \/ ScreenOp(cursor_up(screen, 0))
    \/ ScreenOp(cursor_down(screen, 0))
    \/ ScreenOp(cursor_forward(screen, 0))
    \/ ScreenOp(cursor_back(screen, 0))
    \/ \E line \in {0} \cup 2..MaxLines, column \in {0} \cup 2..MaxColumns :
          ScreenOp(cursor_position(screen, line, column))
    \/ \E line \in {0} \cup 2..MaxLines : ScreenOp(cursor_to_line(screen, line))
    \/ \E column \in {0} \cup 2..MaxColumns :
          ScreenOp(cursor_to_column(screen, column))
    \/ ScreenOp(set_margins(screen, None, None))
    \/ \E top \in 1..MaxLines, bottom \in 1..MaxLines :
          ScreenOp(set_margins(screen, top, bottom))
    \/ ScreenOp(set_mode(screen, {6}, TRUE))
    \/ ScreenOp(reset_mode(screen, {6}, TRUE))
    \/ Len(screen.savepoints) < MaxSave /\ ScreenOp(save_cursor(screen))
    \/ ScreenOp(restore_cursor(screen))
    \/ ScreenOp(index(screen))
    \/ ScreenOp(reverse_index(screen))
    \/ ScreenOp(linefeed(screen))
    \/ \E lines \in 1..MaxLines, columns \in 1..MaxColumns :
          ScreenOp(resize(screen, lines, columns))

SpecScreen == InitScreen /\ [][NextScreen]_vars

(***************************************************************************)
(* C1: after any sequence of screen operations the cursor satisfies        *)
(* 0 <= cursor.y < lines and 0 <= cursor.x <= columns.                     *)
(***************************************************************************)
C1_CursorInBounds ==
    /\ 0 <= screen.cursor.y
    /\ screen.cursor.y < screen.lines
    /\ 0 <= screen.cursor.x
    /\ screen.cursor.x <= screen.columns

\* a tab stop that resize left beyond the right edge, and the cursor on it
C1_StaleTabStop ==
    /\ \E column \in screen.tabstops : column > screen.columns
    /\ screen.cursor.x \in screen.tabstops
    /\ screen.cursor.x > screen.columns

(***************************************************************************)
(* C8: save_cursor, then cursor motions, then restore_cursor leaves the    *)
(* cursor (x, y, attrs), g0, g1 and the charset selector as they were at   *)
(* save time, also when the saved cursor was outside the margins; nested   *)
(* saves are restored last in, first out.                                  *)
(***************************************************************************)
Motions ==
    {"none", "cursor_up", "cursor_down", "cursor_forward", "cursor_back",
     "carriage_return", "cursor_position"}

Motion(s, m) ==
    CASE m = "cursor_up" -> cursor_up(s, 0)
      [] m = "cursor_down" -> cursor_down(s, 0)
      [] m = "cursor_forward" -> cursor_forward(s, 0)
      [] m = "cursor_back" -> cursor_back(s, 0)
      [] m = "carriage_return" -> carriage_return(s)
      [] m = "cursor_position" -> cursor_position(s, 0, 0)
      [] OTHER -> s

SameCursorState(a, b) ==
    /\ a.cursor.x = b.cursor.x
    /\ a.cursor.y = b.cursor.y
    /\ a.cursor.attrs = b.cursor.attrs
    /\ a.g0_charset = b.g0_charset
    /\ a.g1_charset = b.g1_charset
    /\ a.charset = b.charset

C8_SaveRestoreRoundTrip ==
    \A m1 \in Motions, m2 \in Motions :
        LET outer == Motion(save_cursor(screen), m1)
            inner == Motion(save_cursor(outer), m2)
            back1 == restore_cursor(inner)
            back2 == restore_cursor(Motion(back1, m2))
        IN /\ SameCursorState(back1, outer)
           /\ SameCursorState(back2, screen)

\* a cursor parked past the last column, where a save can be taken
C8_SavedPastLastColumn ==
    /\ screen.cursor.x = screen.columns
    /\ restore_cursor(save_cursor(screen)).cursor.x # screen.cursor.x

(***************************************************************************)
(* SpecMargins: a screen of MarginLines rows with a scrolling region,      *)
(* drawn into with and without DECAWM.                                     *)
(***************************************************************************)
InitMargins ==
    /\ terminal_buffer = SublimeTerminalBuffer
    /\ screen = Screen(MarginColumns, MarginLines)
    /\ stream = Stream
    /\ shell = LinuxPty
    /\ emulator = PyteTerminalEmulator(FacadeColumns, FacadeLines, 1, Half)
    /\ session = TerminalView(FALSE)

NextMargins ==
    \/ \E ch \in {"a", "b"} : ScreenOp(draw(screen, <<ch>>))
    \/ ScreenOp(set_margins(screen, None, None))
    \/ \E top \in 1..MarginLines, bottom \in 1..MarginLines :
          ScreenOp(set_margins(screen, top, bottom))
    \/ \E line \in 1..MarginLines, column \in 1..MarginColumns :
          ScreenOp(cursor_position(screen, line, column))
    \/ ScreenOp(set_mode(screen, {7}, TRUE))
    \/ ScreenOp(reset_mode(screen, {7}, TRUE))
    \/ ScreenOp(linefeed(screen))
    \/ ScreenOp(carriage_return(screen))

SpecMargins == InitMargins /\ [][NextMargins]_vars

(***************************************************************************)
(* C9: with DECAWM set, drawing a width-1 character while cursor.x ==      *)
(* columns first moves the cursor to column 0 of the next row (scrolling   *)
(* the margin region when the cursor is on the bottom margin) and then     *)
(* writes the character, and no character drawn before is lost; with       *)
(* DECAWM reset the character overwrites the last column and the cursor    *)
(* stays at x == columns.                                                  *)
(***************************************************************************)
Cell(s, y, x) == LineGet(BufGet(s.buffer, y), x).data

C9_WrapAtLastColumn ==
    screen.cursor.x = screen.columns =>
        LET y == screen.cursor.y
            top == screen.margins.top
            bottom == screen.margins.bottom
            d == draw(screen, <<"b">>)
            rows == Range(0, screen.lines)
            cols == Range(0, screen.columns)
        IN IF DECAWM \in screen.mode
           THEN IF y = bottom
                THEN /\ d.cursor.x = 1
                     /\ d.cursor.y = y
                     /\ \A r \in rows, c \in cols :
                          Cell(d, r, c) =
                            IF r = y /\ c = 0 THEN "b"
                            ELSE IF r = bottom THEN " "
                            ELSE IF top <= r /\ r < bottom
                                 THEN Cell(screen, r + 1, c)
                                 ELSE Cell(screen, r, c)
                ELSE /\ d.cursor.x = 1
                     /\ d.cursor.y = y + 1
                     /\ \A r \in rows, c \in cols :
                          Cell(d, r, c) =
                            IF r = y + 1 /\ c = 0 THEN "b"
                            ELSE Cell(screen, r, c)
           ELSE /\ d.cursor.x = screen.columns
                /\ d.cursor.y = y
                /\ \A r \in rows, c \in cols :
                     Cell(d, r, c) =
                       IF r = y /\ c = screen.columns - 1 THEN "b"
                       ELSE Cell(screen, r, c)

\* the same property away from the rows below the bottom margin
C9_WrapInsideMargins ==
    screen.cursor.y <= screen.margins.bottom => C9_WrapAtLastColumn

\* a full row below the bottom margin, DECAWM set
C9_FullRowBelowMargin ==
    /\ screen.cursor.x = screen.columns
    /\ screen.cursor.y > screen.margins.bottom
    /\ DECAWM \in screen.mode

(***************************************************************************)
(* SpecStream: a Stream with a Screen attached, fed one string per step,   *)
(* beside a shell whose input the key presses are written to.              *)
(***************************************************************************)
\* the decimal digits of a parameter, one character each
RECURSIVE Decimal(_)
Decimal(n) ==
    IF n < 10 THEN <<ToString(n)>>
    ELSE Decimal(n \div 10) \o <<ToString(n % 10)>>

CUP(line, column) ==
    <<ESC, "[">> \o Decimal(line) \o <<";">> \o Decimal(column) \o <<"H">>

DSR6 == <<ESC, "[", "6", "n">>

\* strings that end a sequence where they end
Sequences ==
    {<<"a">>, <<"LF">>, DSR6, <<CSI, "6", "n">>,
     <<ESC, "[", "?", "2", "5", "l">>, <<ESC, "[", "?", "2", "5", "h">>,
     <<ESC, "[", "?", "6", "n">>, <<ESC, "[", "3", "8", "m">>,
     <<ESC, "[", "3", "8", ";", "5", "m">>, <<ESC, "[", "m">>,
     <<ESC, "[", "K">>, <<ESC, "[", "5", "K">>, <<ESC, "[", "7", "J">>,
     <<ESC, "[", "2", "J">>, <<ESC, "#", "8">>}
      \cup {CUP(l, c) : l \in 1..MaxLines, c \in 1..MaxColumns}
      \cup {CUP(l, c) \o DSR6 : l \in 1..MaxLines, c \in 1..MaxColumns}

InitStream ==
    /\ terminal_buffer = SublimeTerminalBuffer
    /\ screen = Screen(MaxColumns, MaxLines)
    /\ stream = Stream
    /\ shell = LinuxPty
    /\ emulator = PyteTerminalEmulator(FacadeColumns, FacadeLines, 1, Half)
    /\ session = TerminalView(FALSE)

Feed ==
    \* in the ground state a whole sequence or one cut after ESC [, and else
    \* a string that goes on from there
    \E chars \in IF stream.state = "stream"
                 THEN Sequences \cup {<<ESC, "[">>}
                 ELSE {<<"6", "n">>, <<"2", ";", "2", "H">>, <<"5", "K">>} :
        LET fed(r) == stream' = r.stream /\ screen' = r.screen
        IN fed(feed(stream, screen, chars))
           /\ UNCHANGED <<shell, emulator, session, terminal_buffer>>

SendString ==
    /\ Len(shell.input) < MaxWrites
    /\ \E string \in {"a"} : shell' = send_string(shell, string)
    /\ UNCHANGED <<screen, stream, emulator, session, terminal_buffer>>

NextStream ==
    \/ Feed
    \/ SendString

SpecStream == InitStream /\ [][NextStream]_vars

(***************************************************************************)
(* C2: for every character sequence fed through Stream.feed to an attached *)
(* screen, feed completes without raising, and the parser is back in its   *)
(* ground state "stream" after each complete sequence; this includes CSI   *)
(* sequences with the private marker "?" for any final byte, SGR 38/48     *)
(* with missing sub-parameters, and EL/ED with an unknown "how".           *)
(***************************************************************************)
C2_FeedNeverRaises ==
    /\ stream.alive
    /\ stream.state = "stream" =>
          \A chars \in Sequences :
              /\ ~feed_raises(stream, screen, chars)
              /\ feed(stream, screen, chars).stream.state = "stream"

\* a feed raised and left the parser waiting for arguments for good
C2_ParserDead == ~stream.alive /\ stream.state = "arguments"

(***************************************************************************)
(* C10: feeding CUP(l, c) followed by DSR 6 with DECOM reset causes        *)
(* exactly one write to the process input, and the bytes written are       *)
(* ESC [ l ; c R with the 1-based cursor row and column.                   *)
(***************************************************************************)
C10_CursorReport ==
    [][\A l \in 1..MaxLines, c \in 1..MaxColumns :
          (/\ stream.alive
           /\ stream.state = "stream"
           /\ DECOM \notin screen.mode
           /\ stream' = feed(stream, screen, CUP(l, c) \o DSR6).stream
           /\ screen' = feed(stream, screen, CUP(l, c) \o DSR6).screen)
          => /\ shell'.input =
                  Append(shell.input,
                         <<ESC, "[", ToString(l), ";", ToString(c), "R">>)
             /\ report_device_status_data(screen', 6) =
                  <<ESC, "[", ToString(l), ";", ToString(c), "R">>]_vars

\* the cursor where CUP(2, 2) puts it, and nothing written to the shell
C10_CursorPlacedNothingWritten ==
    /\ screen.cursor.x = 1
    /\ screen.cursor.y = 1
    /\ stream.alive
    /\ shell.input = <<>>

(***************************************************************************)
(* SpecFacade: a PyteTerminalEmulator that is fed, resized, paged through  *)
(* its history and painted.                                                *)
(***************************************************************************)
FacadeData == {<<"a">>, <<"LF">>, <<ESC, "M">>}

InitFacade ==
    /\ terminal_buffer = SublimeTerminalBuffer
    /\ screen = Screen(MaxColumns, MaxLines)
    /\ stream = Stream
    /\ shell = LinuxPty
    /\ \E ratio \in {Half, [num |-> 1, den |-> 1]} :
          emulator = PyteTerminalEmulator(FacadeColumns, FacadeLines,
                                          FacadeHistory, ratio)
    /\ session = TerminalView(FALSE)

\* a call of a PyteTerminalEmulator method
EmulatorOp(emu) ==
    emulator' = emu /\ UNCHANGED <<screen, stream, shell, session, terminal_buffer>>

NextFacade ==
    \/ /\ ~scroll_to_bottom_hangs(emulator.screen)
       /\ \E data \in FacadeData : EmulatorOp(emulator_feed(emulator, data))
    \/ /\ ~scroll_to_bottom_hangs(emulator.screen)
       /\ \E lines \in 1..MaxFacadeLines, cols \in 1..MaxFacadeColumns :
             EmulatorOp(emulator_resize(emulator, lines, cols))
    \/ EmulatorOp(emulator_prev_page(emulator))
    \/ EmulatorOp(emulator_next_page(emulator))
    \/ EmulatorOp(clear_dirty(emulator))

SpecFacade == InitFacade /\ [][NextFacade]_vars

(***************************************************************************)
(* C4: dirty_lines() returns an entry for every row of the dirty set,      *)
(* whatever the order in which the set is iterated: for a dirty row below  *)
(* the screen height the text of the row, as long as the screen is wide,   *)
(* and for a dirty row at or beyond the screen height (the screen has just *)
(* shrunk) a sentinel, None, that says to delete the row.                  *)
(***************************************************************************)
Orders(rows) ==
    {order \in [1..Cardinality(rows) -> rows] :
        \A i, j \in 1..Cardinality(rows) : i # j => order[i] # order[j]}

C4_DirtyLinesComplete ==
    \A order \in Orders(emulator.screen.dirty) :
        LET result == dirty_lines(emulator, order)
        IN /\ DOMAIN result = emulator.screen.dirty
           /\ \A r \in emulator.screen.dirty :
                 IF r < emulator.screen.lines
                 THEN /\ result[r] = display(emulator.screen)[r + 1]
                      /\ Len(result[r]) = emulator.screen.columns
                 ELSE result[r] = None

\* the screen has shrunk, and in some order of iteration a dirty row that
\* is still on the screen gets no entry
C4_RowOnScreenOmitted ==
    \E order \in Orders(emulator.screen.dirty) :
        \E r \in emulator.screen.dirty :
            /\ r < emulator.screen.lines
            /\ r \notin DOMAIN dirty_lines(emulator, order)

(***************************************************************************)
(* C5: after feed(data) or resize(rows, cols) of the facade returns,       *)
(* history.position = history.size, whatever calls of prev_page and        *)
(* next_page came before.                                                  *)
(***************************************************************************)
Live(emu) == emu.screen.history.position = emu.screen.history.size

prev_page_enabled(s) == s.history.position > s.lines /\ s.history.top # <<>>

FacadeScrollEnds == ~scroll_to_bottom_hangs(emulator.screen)

\* the buffer has as many rows as the screen has lines
FacadeBufferFull == Len(emulator.screen.buffer) = emulator.screen.lines

(***************************************************************************)
(* SpecSession: the thread of TerminalView._main_update_loop next to the   *)
(* child process and to the user, who resizes and closes the view and      *)
(* sends strings to the shell.                                             *)
(***************************************************************************)
InitSession ==
    /\ terminal_buffer = SublimeTerminalBuffer
    /\ screen = Screen(MaxColumns, MaxLines)
    /\ stream = Stream
    /\ shell = LinuxPty
    /\ emulator = PyteTerminalEmulator(FacadeColumns, FacadeLines, 1, Half)
    /\ \E keep_open \in BOOLEAN : session = TerminalView(keep_open)

\* _poll_shell_output: what receive_output returns is fed to the emulator
poll_shell_output(sh, emu) ==
    LET data == receive_output(sh)
    IN IF data = <<>> THEN [shell |-> sh, emulator |-> emu]
       ELSE [shell |-> [sh EXCEPT !.output = Tail(@)],
             emulator |-> emulator_feed(emu, data)]

\* One pass of the while loop of _main_update_loop: _poll_shell_output,
\* update_view, _resize_screen_if_needed, then the two tests that break.
\* killed: whether os.kill in update_screen_size raises because the child
\* is gone.  An exception ends the thread where it is raised.
MainUpdateLoop ==
    /\ session.pc = "RUN"
    /\ ~scroll_to_bottom_hangs(emulator.screen)
    /\ \E killed \in BOOLEAN :
          LET polled == poll_shell_output(shell, emulator)
              feed_raised ==
                  polled.shell # shell /\ ~polled.emulator.stream.alive
              updated == IF polled.emulator.modified /\ session.view_valid
                         THEN clear_dirty(polled.emulator)
                         ELSE polled.emulator
              resize_needed ==
                  session.view_size
                      # <<session.terminal_rows, session.terminal_columns>>
              kill_raised == resize_needed /\ ~is_running(shell) /\ killed
              sized == [session EXCEPT
                          !.terminal_rows = session.view_size[1],
                          !.terminal_columns = session.view_size[2]]
              told == IF resize_needed
                      THEN update_screen_size(polled.shell,
                                              session.view_size[1],
                                              session.view_size[2])
                      ELSE polled.shell
              resized == IF resize_needed
                         THEN emulator_resize(updated, session.view_size[1],
                                              session.view_size[2])
                         ELSE updated
              \* "if not self._shell.is_running(): self._poll_shell_output()"
              last == IF is_running(told)
                      THEN [shell |-> told, emulator |-> resized]
                      ELSE poll_shell_output(told, resized)
          IN IF feed_raised
             THEN /\ shell' = polled.shell
                  /\ emulator' = polled.emulator
                  /\ session' = [session EXCEPT !.pc = "RAISED",
                                                !.raised = "IndexError"]
             ELSE IF kill_raised
             THEN /\ shell' = told
                  /\ emulator' = updated
                  /\ session' = [sized EXCEPT
                                    !.pc = "RAISED",
                                    !.raised = "ProcessLookupError"]
             ELSE /\ shell' = last.shell
                  /\ emulator' = last.emulator
                  /\ session' =
                        LET s == IF resize_needed THEN sized ELSE session
                        IN IF ~is_running(shell) \/ ~session.view_valid
                           THEN [s EXCEPT !.pc = "STOPPING"]
                           ELSE s
    /\ UNCHANGED <<screen, stream, terminal_buffer>>

\* _main_update_loop after the break: _show_close_message_in_terminal,
\* whose first statement calls exit_status, then _stop
CloseSession ==
    /\ session.pc = "STOPPING"
    /\ IF exit_status_raises
       THEN /\ session' = [session EXCEPT !.pc = "RAISED",
                                           !.raised = "AttributeError"]
            /\ UNCHANGED shell
       ELSE /\ session' = stop_session(session)
            /\ shell' = stop(shell)
    /\ UNCHANGED <<screen, stream, emulator, terminal_buffer>>

NextSession ==
    \/ MainUpdateLoop
    \/ CloseSession
    \* the child process writes to the terminal
    \/ /\ is_running(shell)
       /\ Len(shell.output) < MaxOutput
       /\ \E data \in {<<"a">>, <<"LF">>} :
             shell' = [shell EXCEPT !.output = Append(@, data)]
       /\ UNCHANGED <<screen, stream, emulator, session, terminal_buffer>>
    \* the child process exits
    \/ /\ is_running(shell)
       /\ shell' = [shell EXCEPT !.process = "exited"]
       /\ UNCHANGED <<screen, stream, emulator, session, terminal_buffer>>
    \* the user closes the view
    \/ /\ session.view_valid
       /\ session' = [session EXCEPT !.view_valid = FALSE]
       /\ UNCHANGED <<screen, stream, shell, emulator, terminal_buffer>>
    \* the user resizes the view
    \/ /\ session.view_valid
       /\ \E size \in {<<1, 1>>, <<2, 1>>} :
             session' = [session EXCEPT !.view_size = size]
       /\ UNCHANGED <<screen, stream, shell, emulator, terminal_buffer>>
    \* TerminalViewSendString: send_string_to_shell of the session found
    \/ /\ load_from_id(session, ViewId) # None
       /\ Len(shell.input) < MaxWrites
       /\ shell' = send_string(shell, <<"a">>)
       /\ UNCHANGED <<screen, stream, emulator, session, terminal_buffer>>

\* the thread of _main_update_loop runs as long as it has a step to take
SpecSession ==
    /\ InitSession
    /\ [][NextSession]_vars
    /\ WF_vars(MainUpdateLoop)
    /\ WF_vars(CloseSession)

(***************************************************************************)
(* C3: once the child process has exited or the host view has been closed, *)
(* the session loop eventually leaves RUN and reaches DONE: the PTY has    *)
(* been stopped and the session is no longer in the registry of            *)
(* TerminalViewManager, so that load_from_id(view id) returns None from    *)
(* then on.  No path out of RUN leaves the session registered.             *)
(***************************************************************************)
C3_SessionReachesDone ==
    (~is_running(shell) \/ ~session.view_valid)
        ~> [](/\ session.pc = "DONE"
              /\ shell.process = "None"
              /\ load_from_id(session, ViewId) = None)

\* exit_status has ended the thread of the loop after the child exited, and
\* the session is still registered
C3_EndedStillRegistered ==
    /\ session.pc = "RAISED"
    /\ session.raised = "AttributeError"
    /\ ~is_running(shell)
    /\ load_from_id(session, ViewId) # None

(***************************************************************************)
(* SpecOrigin: a Stream with a Screen of the size of the DECOM example     *)
(* attached; the strings fed set and reset DECOM, set the margins, place   *)
(* the cursor and ask for the cursor report.                               *)
(***************************************************************************)
OriginLines == 20

OriginColumns == 5

InitOrigin ==
    /\ terminal_buffer = SublimeTerminalBuffer
    /\ screen = Screen(OriginColumns, OriginLines)
    /\ stream = Stream
    /\ shell = LinuxPty
    /\ emulator = PyteTerminalEmulator(FacadeColumns, FacadeLines, 1, Half)
    /\ session = TerminalView(FALSE)

NextOrigin ==
    \* ESC [ line ; column H
    \/ \E line \in 1..OriginLines, column \in 1..OriginColumns :
          LET fed(r) == stream' = r.stream /\ screen' = r.screen
          IN fed(feed(stream, screen, CUP(line, column)))
             /\ UNCHANGED <<shell, emulator, session, terminal_buffer>>
    \* ESC [ ? 6 h and ESC [ ? 6 l
    \/ \E final \in {"h", "l"} :
          LET fed(r) == stream' = r.stream /\ screen' = r.screen
          IN fed(feed(stream, screen, <<ESC, "[", "?", "6", final>>))
             /\ UNCHANGED <<shell, emulator, session, terminal_buffer>>
    \* ESC [ top ; bottom r
    \/ \E top \in {1, 3}, bottom \in {10, 20} :
          LET fed(r) == stream' = r.stream /\ screen' = r.screen
          IN fed(feed(stream, screen,
                      <<ESC, "[">> \o Decimal(top) \o <<";">>
                        \o Decimal(bottom) \o <<"r">>))
             /\ UNCHANGED <<shell, emulator, session, terminal_buffer>>
    \* ESC [ 6 n
    \/ LET fed(r) == stream' = r.stream /\ screen' = r.screen
       IN fed(feed(stream, screen, DSR6))
          /\ UNCHANGED <<shell, emulator, session, terminal_buffer>>

SpecOrigin == InitOrigin /\ [][NextOrigin]_vars

\* DECOM is set and the margins are those of ESC [ 3 ; 20 r
OriginMode320 ==
    /\ stream.alive
    /\ stream.state = "stream"
    /\ DECOM \in screen.mode
    /\ screen.margins = [top |-> 2, bottom |-> 19]

(***************************************************************************)
(* C11, as the code has it: with DECOM set and the margins (3, 20),        *)
(* feeding ESC [ 10 ; 5 H and then ESC [ 6 n puts the cursor on line 10 of *)
(* the scrolling region (line 12 of the screen) and makes                  *)
(* report_device_status hand CSI 10;5R to write_process_input: the row     *)
(* reported by DSR 6 is relative to the top margin, as the row of CUP is,  *)
(* so that the report gives back the arguments of the CUP before it.       *)
(***************************************************************************)
C11_OriginReport ==
    OriginMode320 =>
        LET s == feed(stream, screen, CUP(10, 5) \o DSR6).screen
        IN /\ s.cursor = [screen.cursor EXCEPT !.x = 4, !.y = 11]
           /\ report_device_status_data(s, 6)
                = <<CSI, "10", ";", "5", "R">>

\* C11 as stated: with DECOM set and the margins (3, 20), ESC [ 10 ; 5 H and
\* then ESC [ 6 n yield the report of row 8, column 5
C11_OriginReportRow8 ==
    OriginMode320 =>
        LET s == feed(stream, screen, CUP(10, 5) \o DSR6).screen
        IN report_device_status_data(s, 6)[2] = "8"

\* ESC [ 10 ; 5 H has been fed with DECOM set and the margins (3, 20)
C11_CursorPlacedInRegion ==
    /\ OriginMode320
    /\ screen.cursor.y = 11
    /\ screen.cursor.x = 4
    /\ report_device_status_data(screen, 6) = <<CSI, "10", ";", "5", "R">>

(***************************************************************************)
(* SpecWide: a PyteTerminalEmulator of one or two columns and one or two   *)
(* lines that is fed, resized and paged through its history.               *)
(***************************************************************************)
WideLines == 2

WideColumns == 2

InitWide ==
    /\ terminal_buffer = SublimeTerminalBuffer
    /\ screen = Screen(MaxColumns, MaxLines)
    /\ stream = Stream
    /\ shell = LinuxPty
    /\ emulator = PyteTerminalEmulator(FacadeColumns, FacadeLines,
                                       FacadeHistory, [num |-> 1, den |-> 1])
    /\ session = TerminalView(FALSE)

\* text is written while the screen has one column, and a resize never
\* makes the screen narrower
NextWide ==
    \/ /\ ~scroll_to_bottom_hangs(emulator.screen)
       /\ \E data \in IF emulator.screen.columns = 1 THEN FacadeData
                       ELSE FacadeData \ {<<"a">>} :
             EmulatorOp(emulator_feed(emulator, data))
    \/ /\ ~scroll_to_bottom_hangs(emulator.screen)
       /\ \E lines \in 1..WideLines,
             cols \in emulator.screen.columns..WideColumns :
             EmulatorOp(emulator_resize(emulator, lines, cols))
    \/ EmulatorOp(emulator_prev_page(emulator))
    \/ EmulatorOp(emulator_next_page(emulator))

SpecWide == InitWide /\ [][NextWide]_vars

\* the text of the rows of a list buffer, row by row
Text(buffer) ==
    [y \in 1..Len(buffer) |-> [x \in 1..Len(buffer[y]) |-> buffer[y][x].data]]

\* "".join(rows).isspace()
isspace(rows) ==
    /\ \E y \in 1..Len(rows) : rows[y] # <<>>
    /\ \A y \in 1..Len(rows) : \A x \in 1..Len(rows[y]) : rows[y][x] = " "

\* what PyteTerminalEmulator.resize to fewer lines leaves of the rows "before"
\* of the live screen: their first "lines" rows if the rows below are blank,
\* and else their last "lines" rows, each cut or filled to "cols" columns
ResizedRows(before, lines, cols) ==
    LET d == Len(before) - lines
        kept == IF isspace(SubSeq(before, lines + 1, Len(before)))
                THEN SubSeq(before, 1, lines)
                ELSE SubSeq(before, d + 1, Len(before))
    IN [y \in 1..lines |->
          [x \in 1..cols |->
              IF x <= Len(kept[y]) THEN kept[y][x] ELSE " "]]

CharAt(s, y, x) == LineGet(BufGet(s.buffer, y), x)

(***************************************************************************)
(* C13: for a screen of size (L, C), resize(L', C') followed by            *)
(* resize(L, C) preserves all content that was not cut off: every cell     *)
(* outside the top L - L' rows, the rows deleted by the shrink, and at a   *)
(* column below min(C, C') keeps its character and attributes, either      *)
(* L - L' rows further up, where delete_lines moves it, or in its place,   *)
(* and the cells of the area that was cut off and added again are blank.   *)
(***************************************************************************)
C13_ResizeRoundTrip ==
    \A lines \in 1..MarginLines, columns \in 1..MarginColumns :
        LET back == resize(resize(screen, lines, columns),
                           screen.lines, screen.columns)
            d == Max(screen.lines - lines, 0)
            kept == Min(screen.columns, columns)
            rows == Range(0, screen.lines)
            cols == Range(0, screen.columns)
        IN /\ back.lines = screen.lines
           /\ back.columns = screen.columns
           /\ \/ \A y \in rows, x \in cols :
                   CharAt(back, y, x) =
                       IF y + d < screen.lines /\ x < kept
                       THEN CharAt(screen, y + d, x)
                       ELSE default_char
              \/ \A y \in rows, x \in cols :
                   CharAt(back, y, x) =
                       IF y >= d /\ x < kept
                       THEN CharAt(screen, y, x)
                       ELSE default_char

\* text on the top row and on the bottom row of a screen of three rows and
\* none between them: after resize(2, 2) and resize(3, 2) the top row, which
\* the shrink was to delete, is still there and the bottom row is one row up
C13_TopRowSurvives ==
    /\ screen.lines = 3
    /\ Cell(screen, 0, 0) = "a"
    /\ 1 \notin DOMAIN screen.buffer
    /\ Cell(screen, 2, 0) = "b"
    /\ LET back == resize(resize(screen, 2, 2), 3, 2)
       IN /\ Cell(back, 0, 0) = "a"
          /\ Cell(back, 1, 0) = "b"
          /\ Cell(back, 2, 0) = " "

\* (lines, columns) of the emulator of a session
EmulatorSize(emu) == <<emu.screen.lines, emu.screen.columns>>

(***************************************************************************)
(* C14: on every pass of the session loop in which the size of the view    *)
(* differs from the (rows, cols) last recorded, both the emulator (resize) *)
(* and the PTY (update_screen_size) are given the new (rows, cols) within  *)
(* that pass, and on a pass with an unchanged size neither is; so after    *)
(* every pass the (lines, columns) of the emulator are the window size     *)
(* last sent to the PTY.                                                   *)
(***************************************************************************)
C14_TickResizesBoth ==
    [][MainUpdateLoop =>
          /\ IF session.view_size
                  # <<session.terminal_rows, session.terminal_columns>>
             THEN /\ shell'.winsize = session.view_size
                  /\ EmulatorSize(emulator') = session.view_size
             ELSE /\ shell'.winsize = shell.winsize
                  /\ EmulatorSize(emulator') = EmulatorSize(emulator)
          /\ EmulatorSize(emulator') = shell'.winsize]_vars

\* a pass of the loop has told the PTY the new size of the view and has been
\* ended by os.kill before the emulator was resized
C14_PtyToldEmulatorNot ==
    /\ session.pc = "RAISED"
    /\ session.raised = "ProcessLookupError"
    /\ shell.winsize = session.view_size
    /\ shell.winsize = <<session.terminal_rows, session.terminal_columns>>
    /\ EmulatorSize(emulator) # shell.winsize

(***************************************************************************)
(* C15: when a pass of the session loop detects termination (the view is   *)
(* closed or the child has exited), the output that the child wrote before *)
(* exiting and that is still unread in the PTY has been read and fed to    *)
(* the emulator before the loop is left and the PTY is stopped: no output  *)
(* produced before the exit is discarded.                                  *)
(***************************************************************************)
C15_OutputDrainedAtExit ==
    [][(MainUpdateLoop /\ session'.pc = "STOPPING") =>
          shell'.output = <<>>]_vars

\* the loop has been left after the child exited, and what the child wrote
\* before it exited is still unread in the PTY
C15_LeftWithUnreadOutput ==
    /\ session.pc = "STOPPING"
    /\ shell.process = "exited"
    /\ shell.output = << <<"a">> >>
    /\ Text(emulator.screen.buffer)[1] = <<" ">>

(***************************************************************************)
(* SpecLaunch: TerminalViewActivate.run starts the session of a new view,  *)
(* and the session then runs as in SpecSession.  The working directories   *)
(* are "cwd", the one asked for, "HOME", the value of $HOME, and "/".      *)
(***************************************************************************)
\* subprocess.Popen in LinuxPty.__init__ raises FileNotFoundError when the
\* working directory or the command does not exist
Popen_raises(cwd, dirs, cmd_exists) == ~cmd_exists \/ cwd \notin dirs

\* TerminalView.run: the shell is started first, and the session is
\* registered only if that did not raise
terminal_view_run(t, cwd, dirs, cmd_exists) ==
    IF Popen_raises(cwd, dirs, cmd_exists)
    THEN [t EXCEPT !.cwd = cwd, !.raised = "FileNotFoundError"]
    ELSE [TerminalView(t.keep_open) EXCEPT
             !.cwd = cwd, !.view_valid = t.view_valid,
             !.view_size = t.view_size]

\* TerminalViewActivate.run: one try, and in its except clause one more call
\* of terminal_view.run, with $HOME or, if that is not set, with "/"
activate_run(t, dirs, home_set, cmd_exists) ==
    LET first == terminal_view_run(t, "cwd", dirs, cmd_exists)
        second == terminal_view_run(t, IF home_set THEN "HOME" ELSE "/",
                                    dirs, cmd_exists)
    IN IF first.raised = "" THEN first
       ELSE IF second.raised = "" THEN second
       ELSE [second EXCEPT !.pc = "RAISED"]

InitLaunch ==
    /\ terminal_buffer = SublimeTerminalBuffer
    /\ screen = Screen(MaxColumns, MaxLines)
    /\ stream = Stream
    /\ shell = [LinuxPty EXCEPT !.process = "None"]
    /\ emulator = PyteTerminalEmulator(FacadeColumns, FacadeLines, 1, Half)
    /\ \E keep_open \in BOOLEAN :
          session = [TerminalView(keep_open) EXCEPT
                        !.pc = "NEW", !.term_views = {},
                        !.shell_is_running = FALSE,
                        !.terminal_buffer_is_open = FALSE,
                        !.activate_args = FALSE]

NextLaunch ==
    \* the command terminal_view_activate
    \/ /\ session.pc = "NEW"
       /\ \E dirs \in SUBSET {"cwd", "HOME", "/"}, home_set \in BOOLEAN,
             cmd_exists \in BOOLEAN :
             /\ session' = activate_run(session, dirs, home_set, cmd_exists)
             /\ shell' = IF session'.pc = "RUN" THEN LinuxPty ELSE shell
       /\ UNCHANGED <<screen, stream, emulator, terminal_buffer>>
    \/ NextSession

SpecLaunch == InitLaunch /\ [][NextLaunch]_vars

(***************************************************************************)
(* C16: if starting the child fails for the working directory asked for,   *)
(* the launcher tries again with HOME and, if that fails too, with "/",    *)
(* and only when every attempt has failed it gives up, with a message and  *)
(* not with an unhandled exception; the session is registered if and only  *)
(* if some attempt succeeded.                                              *)
(***************************************************************************)
C16_LaunchRetries ==
    session.pc = "NEW" =>
        \A dirs \in SUBSET {"cwd", "HOME", "/"}, home_set \in BOOLEAN,
           cmd_exists \in BOOLEAN :
            LET t == activate_run(session, dirs, home_set, cmd_exists)
                succeeds(cwd) == ~Popen_raises(cwd, dirs, cmd_exists)
                some == \/ succeeds("cwd")
                        \/ home_set /\ succeeds("HOME")
                        \/ succeeds("/")
            IN /\ t.pc # "RAISED"
               /\ load_from_id(t, ViewId) # None <=> some
               /\ some => t.pc = "RUN"

\* the launcher has given up with the FileNotFoundError of its second
\* attempt, the one with $HOME, and no session is registered
C16_SecondAttemptRaised ==
    /\ session.pc = "RAISED"
    /\ session.raised = "FileNotFoundError"
    /\ session.cwd = "HOME"
    /\ load_from_id(session, ViewId) = None
    /\ shell.process = "None"

(***************************************************************************)
(* The key encoder of LinuxPty.  A key is the string of the keypress       *)
(* command, a key code the sequence of the characters written to the pty;  *)
(* a control character is written by its name ("CR", "HT", "DEL", ...),    *)
(* and a string that is sent as it is is one element of the sequence.      *)
(* "GRAVE" is the key of the grave accent, which a string here cannot      *)
(* hold.                                                                   *)
(***************************************************************************)
LINUX_KEY_MAP ==
    ("enter" :> <<"CR">>) @@ ("backspace" :> <<"DEL">>)
      @@ ("tab" :> <<"HT">>) @@ ("space" :> <<" ">>)
      @@ ("escape" :> <<ESC>>)
      @@ ("down" :> <<ESC, "[", "B">>) @@ ("up" :> <<ESC, "[", "A">>)
      @@ ("right" :> <<ESC, "[", "C">>) @@ ("left" :> <<ESC, "[", "D">>)
      @@ ("home" :> <<ESC, "[", "1", "~">>)
      @@ ("end" :> <<ESC, "[", "4", "~">>)
      @@ ("pageup" :> <<ESC, "[", "5", "~">>)
      @@ ("pagedown" :> <<ESC, "[", "6", "~">>)
      @@ ("delete" :> <<ESC, "[", "3", "~">>)
      @@ ("insert" :> <<ESC, "[", "2", "~">>)
      @@ ("f1" :> <<ESC, "O", "P">>) @@ ("f2" :> <<ESC, "O", "Q">>)
      @@ ("f3" :> <<ESC, "O", "R">>) @@ ("f4" :> <<ESC, "O", "S">>)
      @@ ("f5" :> <<ESC, "[", "1", "5", "~">>)
      @@ ("f6" :> <<ESC, "[", "1", "7", "~">>)
      @@ ("f7" :> <<ESC, "[", "1", "8", "~">>)
      @@ ("f8" :> <<ESC, "[", "1", "9", "~">>)
      @@ ("f9" :> <<ESC, "[", "2", "0", "~">>)
      @@ ("f10" :> <<ESC, "[", "2", "1", "~">>)
      @@ ("f12" :> <<ESC, "[", "2", "4", "~">>)

LINUX_CTRL_KEY_MAP ==
    ("up" :> <<ESC, "[", "1", ";", "5", "A">>)
      @@ ("down" :> <<ESC, "[", "1", ";", "5", "B">>)
      @@ ("right" :> <<ESC, "[", "1", ";", "5", "C">>)
      @@ ("left" :> <<ESC, "[", "1", ";", "5", "D">>)
      @@ ("@" :> <<"NUL">>) @@ ("GRAVE" :> <<"NUL">>)
      @@ ("[" :> <<ESC>>) @@ ("{" :> <<ESC>>)
      @@ ("\\" :> <<"FS">>) @@ ("|" :> <<"FS">>)
      @@ ("]" :> <<"GS">>) @@ ("}" :> <<"GS">>)
      @@ ("^" :> <<"RS">>) @@ ("~" :> <<"RS">>)
      @@ ("_" :> <<"US">>) @@ ("?" :> <<"DEL">>)

LINUX_ALT_KEY_MAP ==
    ("up" :> <<ESC, "[", "1", ";", "3", "A">>)
      @@ ("down" :> <<ESC, "[", "1", ";", "3", "B">>)
      @@ ("right" :> <<ESC, "[", "1", ";", "3", "C">>)
      @@ ("left" :> <<ESC, "[", "1", ";", "3", "D">>)

\* the letters, "a" at 1: ord(letter) - ord("a") + 1 is its place here
LowerCase ==
    <<"a", "b", "c", "d", "e", "f", "g", "h", "i", "j", "k", "l", "m",
      "n", "o", "p", "q", "r", "s", "t", "u", "v", "w", "x", "y", "z">>

UpperCase ==
    <<"A", "B", "C", "D", "E", "F", "G", "H", "I", "J", "K", "L", "M",
      "N", "O", "P", "Q", "R", "S", "T", "U", "V", "W", "X", "Y", "Z">>

\* chr(1) .. chr(26)
chr(n) ==
    <<"SOH", "STX", "ETX", "EOT", "ENQ", "ACK", "BEL", "BS", "HT", "LF",
      "VT", "FF", "CR", "SO", "SI", "DLE", "DC1", "DC2", "DC3", "DC4",
      "NAK", "SYN", "ETB", "CAN", "EM", "SUB">>[n]

\* ord of a string of one character: exact for the letters; the other
\* characters are outside 97..122, which is all that is asked of them
ord(char) ==
    IF \E i \in 1..26 : LowerCase[i] = char
    THEN 96 + CHOOSE i \in 1..26 : LowerCase[i] = char
    ELSE IF \E i \in 1..26 : UpperCase[i] = char
    THEN 64 + CHOOSE i \in 1..26 : UpperCase[i] = char
    ELSE 32

\* str.lower
lower(key) ==
    IF \E i \in 1..26 : UpperCase[i] = key
    THEN LowerCase[CHOOSE i \in 1..26 : UpperCase[i] = key]
    ELSE IF key = "Up" THEN "up"
    ELSE key

get_key_code(key) ==
    IF key \in DOMAIN LINUX_KEY_MAP THEN LINUX_KEY_MAP[key] ELSE <<key>>

get_ctrl_combination_key_code(key0) ==
    LET key == lower(key0)
    IN IF key \in DOMAIN LINUX_CTRL_KEY_MAP THEN LINUX_CTRL_KEY_MAP[key]
       ELSE IF Len(key) = 1 /\ ord(key) >= 97 /\ ord(key) <= 122
       THEN <<chr(ord(key) - ord("a") + 1)>>
       ELSE get_key_code(key)

get_alt_combination_key_code(key0) ==
    LET key == lower(key0)
    IN IF key \in DOMAIN LINUX_ALT_KEY_MAP THEN LINUX_ALT_KEY_MAP[key]
       ELSE <<ESC>> \o get_key_code(key)

\* LinuxPty.send_keypress(key, ctrl, alt, shift, meta)
send_keypress(sh, key, ctrl, alt, shift, meta) ==
    send_string(sh, IF ctrl THEN get_ctrl_combination_key_code(key)
                    ELSE IF alt THEN get_alt_combination_key_code(key)
                    ELSE get_key_code(key))

\* TerminalView.keypress_callback: self._shell.send_keypress is called with
\* six arguments, and send_keypress takes five at most: TypeError
keypress_callback(sh, key, ctrl, alt, shift, meta, app_mode) ==
    LET args == <<key, ctrl, alt, shift, meta, app_mode>>
    IN IF Len(args) > 5
       THEN [shell |-> sh, raised |-> "TypeError"]
       ELSE [shell |-> send_keypress(sh, key, ctrl, alt, shift, meta),
             raised |-> ""]

\* PyteTerminalEmulator.application_mode_enabled
application_mode_enabled(emu) == FALSE

\* PyteTerminalEmulator.bracketed_paste_mode_enabled
bracketed_paste_mode_enabled(emu) == (2004 * 32) \in emu.screen.mode

\* TerminalViewPaste.run up to its calls of the callback: the keys it
\* presses for the clipboard "copied", a sequence of characters
RECURSIVE paste_keys(_)
paste_keys(copied) ==
    IF copied = <<>> THEN <<>>
    ELSE IF Len(copied) >= 2 /\ copied[1] = "CR" /\ copied[2] = "LF"
    THEN <<"enter">> \o paste_keys(SubSeq(copied, 3, Len(copied)))
    ELSE <<IF Head(copied) \in {"LF", "CR"} THEN "enter"
           ELSE IF Head(copied) = "HT" THEN "tab"
           ELSE Head(copied)>> \o paste_keys(Tail(copied))

\* the calls of the callback one after the other, up to the first that raises
RECURSIVE press_keys(_, _)
press_keys(sh, keys) ==
    IF keys = <<>> THEN [shell |-> sh, raised |-> ""]
    ELSE LET pressed == keypress_callback(sh, Head(keys), FALSE, FALSE,
                                          FALSE, FALSE, FALSE)
         IN IF pressed.raised # "" THEN pressed
            ELSE press_keys(pressed.shell, Tail(keys))

\* TerminalViewPaste.run
paste_run(sh, emu, bracketed0, copied) ==
    LET bracketed == bracketed0 \/ bracketed_paste_mode_enabled(emu)
    IN press_keys(sh,
                  (IF bracketed THEN <<"bracketed_paste_mode_start">>
                   ELSE <<>>)
                    \o paste_keys(copied)
                    \o (IF bracketed THEN <<"bracketed_paste_mode_end">>
                        ELSE <<>>))

(***************************************************************************)
(* SpecKeys: keys are pressed and the clipboard is pasted in the view of a *)
(* running session, and keys are sent to the LinuxPty directly.            *)
(***************************************************************************)
MaxKeypresses == 1

Keys ==
    DOMAIN LINUX_KEY_MAP \cup DOMAIN LINUX_CTRL_KEY_MAP
      \cup {LowerCase[i] : i \in 1..26} \cup {UpperCase[i] : i \in 1..26}
      \cup {"1", "Up", "f11", "bracketed_paste_mode_start",
            "bracketed_paste_mode_end"}

Clipboards ==
    {<<>>, <<"a">>, <<"LF">>, <<"CR">>, <<"HT">>, <<"CR", "LF">>,
     <<"a", "CR", "LF", "b">>}

InitKeys ==
    /\ terminal_buffer = SublimeTerminalBuffer
    /\ screen = Screen(MaxColumns, MaxLines)
    /\ stream = Stream
    /\ shell = LinuxPty
    /\ \E modes \in {{}, {2004 * 32}} :
          emulator =
              [PyteTerminalEmulator(FacadeColumns, FacadeLines, 1, Half)
                 EXCEPT !.screen.mode = @ \cup modes]
    /\ session = TerminalView(FALSE)

NextKeys ==
    \* LinuxPty.send_keypress
    \/ /\ Len(shell.input) < MaxKeypresses
       /\ \E key \in Keys, ctrl \in BOOLEAN, alt \in BOOLEAN :
             shell' = send_keypress(shell, key, ctrl, alt, FALSE, FALSE)
       /\ UNCHANGED <<screen, stream, emulator, session, terminal_buffer>>
    \* TerminalViewKeypress.run
    \/ /\ load_from_id(session, ViewId) # None
       /\ Len(shell.input) < MaxKeypresses
       /\ \E key \in Keys, ctrl \in BOOLEAN, alt \in BOOLEAN :
             LET pressed ==
                     keypress_callback(shell, key, ctrl, alt, FALSE, FALSE,
                                       application_mode_enabled(emulator))
             IN /\ shell' = pressed.shell
                /\ session' = [session EXCEPT !.raised = pressed.raised]
       /\ UNCHANGED <<screen, stream, emulator, terminal_buffer>>
    \* TerminalViewPaste.run
    \/ /\ load_from_id(session, ViewId) # None
       /\ Len(shell.input) < MaxKeypresses
       /\ \E bracketed \in BOOLEAN, copied \in Clipboards :
             LET pasted == paste_run(shell, emulator, bracketed, copied)
             IN /\ shell' = pasted.shell
                /\ session' = [session EXCEPT !.raised = pasted.raised]
       /\ UNCHANGED <<screen, stream, emulator, terminal_buffer>>
    \* the child process exits
    \/ /\ is_running(shell)
       /\ shell' = [shell EXCEPT !.process = "exited"]
       /\ UNCHANGED <<screen, stream, emulator, session, terminal_buffer>>

SpecKeys == InitKeys /\ [][NextKeys]_vars

\* ESC [ n ~
Tilde(n) == <<ESC, "[">> \o Decimal(n) \o <<"~">>

\* the table of the plain keys: a key and the characters it is to send
PlainKeys ==
    ("enter" :> <<"CR">>) @@ ("backspace" :> <<"DEL">>)
      @@ ("tab" :> <<"HT">>) @@ ("space" :> <<" ">>)
      @@ ("escape" :> <<ESC>>)
      @@ [key \in {"down", "up", "right", "left"} |->
            <<ESC, "[", CASE key = "down" -> "B" [] key = "up" -> "A"
                          [] key = "right" -> "C" [] key = "left" -> "D">>]
      @@ ("home" :> Tilde(1)) @@ ("end" :> Tilde(4))
      @@ ("pageup" :> Tilde(5)) @@ ("pagedown" :> Tilde(6))
      @@ ("delete" :> Tilde(3)) @@ ("insert" :> Tilde(2))
      @@ [key \in {"f1", "f2", "f3", "f4"} |->
            <<ESC, "O", CASE key = "f1" -> "P" [] key = "f2" -> "Q"
                          [] key = "f3" -> "R" [] key = "f4" -> "S">>]
      @@ ("f5" :> Tilde(15)) @@ ("f6" :> Tilde(17)) @@ ("f7" :> Tilde(18))
      @@ ("f8" :> Tilde(19)) @@ ("f9" :> Tilde(20)) @@ ("f10" :> Tilde(21))
      @@ ("f12" :> Tilde(24))
      @@ ("bracketed_paste_mode_start" :> Tilde(200))
      @@ ("bracketed_paste_mode_end" :> Tilde(201))

\* what send_keypress writes to the pty of a running shell
Encoded(key, ctrl, alt, shift, meta) ==
    LET sent == send_keypress(shell, key, ctrl, alt, shift, meta).input
    IN IF Len(sent) = Len(shell.input) THEN <<>> ELSE sent[Len(sent)]

\* the encoder against a table of plain keys
KeyEncoding(table) ==
    is_running(shell) =>
        /\ \A key \in DOMAIN table :
              /\ Encoded(key, FALSE, FALSE, FALSE, FALSE) = table[key]
              /\ table[key] # <<>>
        /\ \A i \in 1..26 :
              /\ Encoded(LowerCase[i], TRUE, FALSE, FALSE, FALSE) = <<chr(i)>>
              /\ Encoded(UpperCase[i], TRUE, FALSE, FALSE, FALSE) = <<chr(i)>>
              /\ Encoded(LowerCase[i], FALSE, FALSE, FALSE, FALSE)
                   = <<LowerCase[i]>>
              /\ Encoded(UpperCase[i], FALSE, FALSE, FALSE, FALSE)
                   = <<UpperCase[i]>>
        /\ \A key \in {"up", "down", "right", "left"} :
              Encoded(key, TRUE, FALSE, FALSE, FALSE)
                = <<ESC, "[", "1", ";", "5",
                    CASE key = "up" -> "A" [] key = "down" -> "B"
                      [] key = "right" -> "C" [] key = "left" -> "D">>
        /\ \A key \in {"@", "GRAVE"} :
              Encoded(key, TRUE, FALSE, FALSE, FALSE) = <<"NUL">>
        /\ \A key \in {"[", "{"} :
              Encoded(key, TRUE, FALSE, FALSE, FALSE) = <<ESC>>
        /\ \A key \in {"\\", "|"} :
              Encoded(key, TRUE, FALSE, FALSE, FALSE) = <<"FS">>
        /\ \A key \in {"]", "}"} :
              Encoded(key, TRUE, FALSE, FALSE, FALSE) = <<"GS">>
        /\ \A key \in {"^", "~"} :
              Encoded(key, TRUE, FALSE, FALSE, FALSE) = <<"RS">>
        /\ Encoded("_", TRUE, FALSE, FALSE, FALSE) = <<"US">>
        /\ Encoded("?", TRUE, FALSE, FALSE, FALSE) = <<"DEL">>
        /\ \A key \in Keys, ctrl \in BOOLEAN, alt \in BOOLEAN,
              shift \in BOOLEAN, meta \in BOOLEAN :
              LET once == send_keypress(shell, key, ctrl, alt, shift, meta)
                  twice == send_keypress(once, key, ctrl, alt, shift, meta)
                  n == Len(shell.input)
              IN /\ Len(twice.input) = n + 2
                 /\ twice.input[n + 1] = twice.input[n + 2]
                 /\ twice.input[n + 1]
                      = Encoded(key, ctrl, alt, FALSE, FALSE)

(***************************************************************************)
(* C17: send_keypress is a total, deterministic function of (key, ctrl,    *)
(* alt): every key named in the table of the plain keys yields its listed  *)
(* non-empty byte sequence, Ctrl and a letter a-z of either case yield the *)
(* single byte 0x01..0x1A, Ctrl and an arrow yield ESC [ 1 ; 5 A/B/C/D,    *)
(* each listed Ctrl and symbol yield their control byte, an unmodified     *)
(* single printable character yields itself, and encoding the same input   *)
(* twice yields identical bytes.                                           *)
(***************************************************************************)
C17_KeyEncoding == KeyEncoding(PlainKeys)

\* the encoder against the keys of the table that LINUX_KEY_MAP has
KeyEncodingOfMappedKeys ==
    KeyEncoding([key \in DOMAIN LINUX_KEY_MAP |-> PlainKeys[key]])

\* send_keypress was given the key bracketed_paste_mode_start and has
\* written the name of the key to the pty
C17_KeyNameWritten ==
    /\ is_running(shell)
    /\ shell.input = << <<"bracketed_paste_mode_start">> >>
    /\ session.raised = ""

(***************************************************************************)
(* C18: when application cursor mode is enabled, Up/Down/Right/Left are    *)
(* encoded as ESC O A/B/C/D, and the path of a keypress from the keypress  *)
(* command through TerminalView.keypress_callback to                       *)
(* LinuxPty.send_keypress carries the application-mode flag to the encoder *)
(* without error.                                                          *)
(***************************************************************************)
C18_ApplicationCursorKeys ==
    (load_from_id(session, ViewId) # None /\ is_running(shell)) =>
        \A key \in {"up", "down", "right", "left"}, app_mode \in BOOLEAN :
            LET pressed == keypress_callback(shell, key, FALSE, FALSE, FALSE,
                                             FALSE, app_mode)
                sent == pressed.shell.input
            IN /\ pressed.raised = ""
               /\ Len(sent) = Len(shell.input) + 1
               /\ sent[Len(sent)] =
                    IF app_mode
                    THEN <<ESC, "O",
                           CASE key = "up" -> "A" [] key = "down" -> "B"
                             [] key = "right" -> "C" [] key = "left" -> "D">>
                    ELSE PlainKeys[key]

\* a key was pressed in the view of a running session: the callback has
\* raised TypeError and nothing was written to the pty
C18_KeypressRaised ==
    /\ load_from_id(session, ViewId) # None
    /\ is_running(shell)
    /\ session.raised = "TypeError"
    /\ shell.input = <<>>
    /\ keypress_callback(shell, "up", FALSE, FALSE, FALSE, FALSE,
                         application_mode_enabled(emulator)).raised
         = "TypeError"

(***************************************************************************)
(* C19: with alt set and ctrl not set, Alt and an arrow encode as          *)
(* ESC [ 1 ; 3 A/B/C/D, and every other key encodes as ESC followed by the *)
(* plain encoding of that same key, for every key including the           *)
(* upper-case letters and the named keys.                                  *)
(***************************************************************************)
C19_AltEncoding ==
    is_running(shell) =>
        \A key \in Keys \ {"Up"} :
            Encoded(key, FALSE, TRUE, FALSE, FALSE) =
                IF key \in {"up", "down", "right", "left"}
                THEN <<ESC, "[", "1", ";", "3",
                       CASE key = "up" -> "A" [] key = "down" -> "B"
                         [] key = "right" -> "C" [] key = "left" -> "D">>
                ELSE <<ESC>> \o Encoded(key, FALSE, FALSE, FALSE, FALSE)

\* Alt and the upper-case letter A were sent: ESC and the lower-case letter
\* were written
C19_AltUpperCaseLowered ==
    /\ shell.input = << <<ESC, "a">> >>
    /\ get_alt_combination_key_code("A") = <<ESC, "a">>
    /\ get_key_code("A") = <<"A">>

\* what a paste of the clipboard "copied" is to write, key by key
RECURSIVE PastedCodes(_)
PastedCodes(copied) ==
    IF copied = <<>> THEN <<>>
    ELSE IF Len(copied) >= 2 /\ copied[1] = "CR" /\ copied[2] = "LF"
    THEN << <<"CR">> >> \o PastedCodes(SubSeq(copied, 3, Len(copied)))
    ELSE << CASE Head(copied) \in {"CR", "LF"} -> <<"CR">>
              [] Head(copied) = "HT" -> <<"HT">>
              [] OTHER -> <<Head(copied)>> >> \o PastedCodes(Tail(copied))

(***************************************************************************)
(* C20: when a bracketed paste is asked for or the private mode 2004 is    *)
(* set in the emulator, a paste writes to the PTY, in this order,          *)
(* ESC [ 200 ~, then the clipboard as one key event per character (CR LF,  *)
(* a lone LF and a lone CR each as one enter, TAB as tab), then            *)
(* ESC [ 201 ~; when it is neither asked for nor enabled only the contents *)
(* are written.                                                            *)
(***************************************************************************)
C20_BracketedPaste ==
    (load_from_id(session, ViewId) # None /\ is_running(shell)) =>
        \A bracketed \in BOOLEAN, copied \in Clipboards :
            LET pasted == paste_run(shell, emulator, bracketed, copied)
                marked == bracketed \/ (2004 * 32) \in emulator.screen.mode
            IN /\ pasted.raised = ""
               /\ pasted.shell.input =
                    shell.input
                      \o (IF marked THEN <<Tilde(200)>> ELSE <<>>)
                      \o PastedCodes(copied)
                      \o (IF marked THEN <<Tilde(201)>> ELSE <<>>)

\* the clipboard was pasted while the private mode 2004 was set: the first
\* call of the callback has raised TypeError and nothing was written
C20_PasteRaised ==
    /\ load_from_id(session, ViewId) # None
    /\ is_running(shell)
    /\ bracketed_paste_mode_enabled(emulator)
    /\ session.raised = "TypeError"
    /\ shell.input = <<>>
    /\ paste_run(shell, emulator, FALSE, <<"a">>).raised = "TypeError"

(***************************************************************************)
(* SpecPty: a LinuxPty next to its child process.  The caller sends        *)
(* strings and keys, reads the output, tells the size of the screen and    *)
(* stops the shell; the child writes and exits.  session.raised is the     *)
(* exception of the last call, "" when it returned.                        *)
(***************************************************************************)
\* LinuxPty.update_screen_size, the whole call.  reaped: whether the child
\* that exited was waited for, so that its pid is free: os.kill on it
\* raises.  self._process is None after stop: the read of .pid raises.
update_screen_size_call(sh, lines, columns, reaped) ==
    LET told == update_screen_size(sh, lines, columns)
    IN CASE sh.process = "None" ->
              [shell |-> told, raised |-> "AttributeError"]
         [] sh.process = "exited" /\ reaped ->
              [shell |-> told, raised |-> "ProcessLookupError"]
         [] OTHER -> [shell |-> told, raised |-> ""]

\* receive_output as a call: what it returns and the shell it leaves
receive_output_call(sh) ==
    LET data == receive_output(sh)
    IN [shell |-> IF data = <<>> THEN sh
                  ELSE [sh EXCEPT !.output = Tail(@)],
        returned |-> data]

PtySizes == {<<1, 1>>, <<24, 80>>}

InitPty ==
    /\ terminal_buffer = SublimeTerminalBuffer
    /\ screen = Screen(MaxColumns, MaxLines)
    /\ stream = Stream
    /\ shell = LinuxPty
    /\ emulator = PyteTerminalEmulator(FacadeColumns, FacadeLines, 1, Half)
    /\ session = TerminalView(FALSE)

NextPty ==
    \* LinuxPty.send_string
    \/ /\ Len(shell.input) <= MaxWrites
       /\ \E string \in {<<"a">>, <<"b">>} :
             shell' = send_string(shell, string)
       /\ session' = [session EXCEPT !.raised = ""]
       /\ UNCHANGED <<screen, stream, emulator, terminal_buffer>>
    \* LinuxPty.send_keypress
    \/ /\ Len(shell.input) <= MaxWrites
       /\ \E key \in {"a", "enter"}, ctrl \in BOOLEAN :
             shell' = send_keypress(shell, key, ctrl, FALSE, FALSE, FALSE)
       /\ session' = [session EXCEPT !.raised = ""]
       /\ UNCHANGED <<screen, stream, emulator, terminal_buffer>>
    \* LinuxPty.receive_output
    \/ /\ shell' = receive_output_call(shell).shell
       /\ session' = [session EXCEPT !.raised = ""]
       /\ UNCHANGED <<screen, stream, emulator, terminal_buffer>>
    \* LinuxPty.update_screen_size
    \/ /\ \E size \in PtySizes, reaped \in BOOLEAN :
             LET told == update_screen_size_call(shell, size[1], size[2],
                                                 reaped)
             IN /\ shell' = told.shell
                /\ session' = [session EXCEPT !.raised = told.raised]
       /\ UNCHANGED <<screen, stream, emulator, terminal_buffer>>
    \* LinuxPty.stop
    \/ /\ shell' = stop(shell)
       /\ session' = [session EXCEPT !.raised = ""]
       /\ UNCHANGED <<screen, stream, emulator, terminal_buffer>>
    \* the child process writes to the terminal
    \/ /\ is_running(shell)
       /\ Len(shell.output) <= MaxOutput
       /\ \E data \in {<<"a">>, <<"LF">>} :
             shell' = [shell EXCEPT !.output = Append(@, data)]
       /\ UNCHANGED <<screen, stream, emulator, session, terminal_buffer>>
    \* the child process exits
    \/ /\ is_running(shell)
       /\ shell' = [shell EXCEPT !.process = "exited"]
       /\ UNCHANGED <<screen, stream, emulator, session, terminal_buffer>>

SpecPty == InitPty /\ [][NextPty]_vars

(***************************************************************************)
(* C21: after the child has exited or stop() has been called,              *)
(* receive_output returns None, send_string and send_keypress write        *)
(* nothing, update_screen_size is a no-op, and none of them raises.        *)
(***************************************************************************)
C21_DeadChildNoop ==
    ~is_running(shell) =>
        /\ receive_output_call(shell) = [shell |-> shell, returned |-> <<>>]
        /\ \A string \in {<<"a">>, <<"b">>} :
              send_string(shell, string) = shell
        /\ \A key \in {"a", "enter"}, ctrl \in BOOLEAN :
              send_keypress(shell, key, ctrl, FALSE, FALSE, FALSE) = shell
        /\ \A size \in PtySizes, reaped \in BOOLEAN :
              update_screen_size_call(shell, size[1], size[2], reaped)
                  = [shell |-> shell, raised |-> ""]

\* the reads and the writes alone: they do nothing on a dead child
C21_DeadChildReadWrite ==
    ~is_running(shell) =>
        /\ receive_output_call(shell) = [shell |-> shell, returned |-> <<>>]
        /\ \A string \in {<<"a">>, <<"b">>} :
              send_string(shell, string) = shell
        /\ \A key \in {"a", "enter"}, ctrl \in BOOLEAN :
              send_keypress(shell, key, ctrl, FALSE, FALSE, FALSE) = shell

\* stop() was called, then update_screen_size(24, 80): it raised, and the
\* size of the pty was set
C21_SizeToldAfterStop ==
    /\ shell.process = "None"
    /\ shell.signals = <<"SIGKILL">>
    /\ shell.winsize = <<24, 80>>
    /\ session.raised = "AttributeError"

(***************************************************************************)
(* C22: stop() first sends SIGTERM and force-kills the child only if it is *)
(* still alive after the grace period; after stop() returns, is_running()  *)
(* is false, and a second stop() is a no-op.                               *)
(***************************************************************************)
C22_StopTermThenKill ==
    LET stopped == stop(shell)
        sent == SubSeq(stopped.signals, Len(shell.signals) + 1,
                       Len(stopped.signals))
    IN /\ is_running(shell) =>
             /\ sent # <<>>
             /\ Head(sent) = "SIGTERM"
       /\ ~is_running(stopped)
       /\ stop(stopped) = stopped

\* what holds of stop: is_running() is false after it, and the second call
\* changes nothing
C22_StopIsFinal ==
    LET stopped == stop(shell)
    IN ~is_running(stopped) /\ stop(stopped) = stopped

\* stop() was called on a running child: SIGKILL is the one signal sent
C22_KilledAtOnce ==
    /\ shell.process = "None"
    /\ shell.signals = <<"SIGKILL">>
    /\ session.raised = ""
    /\ shell.winsize = <<0, 0>>

(***************************************************************************)
(* SpecView: the view of a SublimeTerminalBuffer.  The worker feeds the    *)
(* emulator and tells it the size of the view; terminal_view_update paints *)
(* the dirty rows through the cache of the lines shown.                    *)
(***************************************************************************)
\* SublimeViewContentCache.get_line_start_and_end_points
RECURSIVE line_start_point(_, _)
line_start_point(cache, line_no) ==
    IF line_no = 0 THEN 0
    ELSE line_start_point(cache, line_no - 1)
           + (IF (line_no - 1) \in DOMAIN cache
              THEN Len(cache[line_no - 1]) ELSE 0)

get_line_start_and_end_points(cache, line_no) ==
    LET start_point == line_start_point(cache, line_no)
    IN <<start_point,
         IF line_no \in DOMAIN cache
         THEN start_point + Len(cache[line_no]) ELSE start_point>>

\* SublimeViewContentCache.update_line
update_line(cache, line_no, content) ==
    [r \in (DOMAIN cache) \cup {line_no} |->
        IF r = line_no THEN content ELSE cache[r]]

\* view.replace(edit, Region(a, b), content) of the host: a region is cut
\* to the text there is
view_replace(text, a, b, content) ==
    LET start == Min(a, Len(text))
        end == Min(Max(a, b), Len(text))
    IN SubSeq(text, 1, start) \o content \o SubSeq(text, end + 1, Len(text))

\* _update_line_content without the test of the cached line
update_line_content_always(tb, line_no, content) ==
    LET content_w_newline == Append(content, "LF")
        cache == tb.view_content_cache
        points == get_line_start_and_end_points(cache, line_no)
    IN [tb EXCEPT
          !.text = view_replace(@, points[1], points[2], content_w_newline),
          !.replaced = Append(@, [line_no |-> line_no,
                                  start |-> points[1],
                                  end |-> points[2],
                                  content |-> content_w_newline]),
          !.view_content_cache =
              update_line(cache, line_no, content_w_newline)]

\* TerminalViewUpdate._update_line_content
update_line_content(tb, line_no, content) ==
    LET content_w_newline == Append(content, "LF")
        cache == tb.view_content_cache
        points == get_line_start_and_end_points(cache, line_no)
    IN IF line_no \in DOMAIN cache /\ cache[line_no] = content_w_newline
       THEN tb
       ELSE [tb EXCEPT
               !.text = view_replace(@, points[1], points[2],
                                     content_w_newline),
               !.replaced = Append(@, [line_no |-> line_no,
                                       start |-> points[1],
                                       end |-> points[2],
                                       content |-> content_w_newline]),
               !.view_content_cache =
                   update_line(cache, line_no, content_w_newline)]

\* sorted(lines)
RECURSIVE sorted(_)
sorted(lines) ==
    IF lines = {} THEN <<>>
    ELSE LET least == CHOOSE r \in lines : \A q \in lines : r <= q
         IN <<least>> \o sorted(lines \ {least})

\* TerminalViewUpdate._update_lines, colours off
RECURSIVE update_lines(_, _, _)
update_lines(tb, lines, rows) ==
    IF rows = <<>> THEN tb
    ELSE update_lines(update_line_content(tb, Head(rows), lines[Head(rows)]),
                      lines, Tail(rows))

\* TerminalViewUpdate.run; order: the order of iteration of the dirty set
terminal_view_update_run(tb, emu, order) ==
    LET lines == dirty_lines(emu, order)
    IN [terminal_buffer |->
            update_lines([tb EXCEPT !.replaced = <<>>], lines,
                         sorted(DOMAIN lines)),
        emulator |-> clear_dirty(emu)]

\* SublimeTerminalBuffer.update_terminal_size: terminal_view_clear erases
\* the text from the start of row nb_rows on
update_terminal_size(tb, emu, nb_rows, nb_cols) ==
    [terminal_buffer |->
        IF nb_rows < emu.screen.lines
        THEN [tb EXCEPT
                !.text = SubSeq(@, 1,
                    Min(Len(@), get_line_start_and_end_points(
                                    tb.view_content_cache, nb_rows)[1]))]
        ELSE tb,
     emulator |-> emulator_resize(emu, nb_rows, nb_cols)]

ViewLines == 2

ViewColumns == 2

InitView ==
    /\ terminal_buffer = SublimeTerminalBuffer
    /\ screen = Screen(MaxColumns, MaxLines)
    /\ stream = Stream
    /\ shell = LinuxPty
    /\ emulator = PyteTerminalEmulator(FacadeColumns, FacadeLines, 1, Half)
    /\ session = TerminalView(FALSE)

\* The bounds: the child writes "a" and line feeds, and the view is made
\* wider, never narrower.
NextView ==
    \* SublimeTerminalBuffer.insert_data
    \/ /\ \E data \in {<<"a">>, <<"LF">>} :
             emulator' = emulator_feed(emulator, data)
       /\ UNCHANGED <<screen, stream, shell, session, terminal_buffer>>
    \* SublimeTerminalBuffer.update_view: terminal_view_update
    \/ /\ emulator.modified
       /\ \E order \in Orders(emulator.screen.dirty) :
             LET updated ==
                     terminal_view_update_run(terminal_buffer, emulator,
                                              order)
             IN /\ terminal_buffer' = updated.terminal_buffer
                /\ emulator' = updated.emulator
       /\ UNCHANGED <<screen, stream, shell, session>>
    \* SublimeTerminalBuffer.update_terminal_size
    \/ /\ \E nb_rows \in 1..ViewLines,
             nb_cols \in emulator.screen.columns..ViewColumns :
             LET sized == update_terminal_size(terminal_buffer, emulator,
                                               nb_rows, nb_cols)
             IN /\ terminal_buffer' = sized.terminal_buffer
                /\ emulator' = sized.emulator
       /\ UNCHANGED <<screen, stream, shell, session>>

SpecView == InitView /\ [][NextView]_vars

(***************************************************************************)
(* C23: terminal_view_update takes the dirty rows in ascending order.  For *)
(* a dirty row r whose cached line differs from content + newline, the     *)
(* region replaced is [S, S + len(cache[r])), S being the sum of the       *)
(* lengths of the cached lines of the rows 0..r-1 and len(cache[r]) being  *)
(* 0 for a row not cached, and the cache entry of r is content + newline   *)
(* afterwards; a row whose cached line equals the new one is not replaced. *)
(***************************************************************************)
Cached(cache, r) == IF r \in DOMAIN cache THEN Len(cache[r]) ELSE 0

RECURSIVE CachedBelow(_, _)
CachedBelow(cache, rows) ==
    IF rows = {} THEN 0
    ELSE LET r == CHOOSE q \in rows : TRUE
         IN Cached(cache, r) + CachedBelow(cache, rows \ {r})

C23_ReplacedRegion ==
    \A order \in Orders(emulator.screen.dirty) :
        LET lines == dirty_lines(emulator, order)
            before == terminal_buffer.view_content_cache
            ran == terminal_view_update_run(terminal_buffer, emulator,
                                            order).terminal_buffer
            after == ran.view_content_cache
            calls(r) == {i \in 1..Len(ran.replaced) :
                            ran.replaced[i].line_no = r}
        IN /\ \A i, j \in 1..Len(ran.replaced) :
                 i < j => ran.replaced[i].line_no < ran.replaced[j].line_no
           /\ \A i \in 1..Len(ran.replaced) :
                 ran.replaced[i].line_no \in DOMAIN lines
           /\ DOMAIN after = (DOMAIN before) \cup (DOMAIN lines)
           /\ \A r \in (DOMAIN before) \ (DOMAIN lines) :
                 after[r] = before[r]
           /\ \A r \in DOMAIN lines :
                 LET content == Append(lines[r], "LF")
                     S == CachedBelow(after, Range(0, r))
                 IN /\ after[r] = content
                    /\ IF r \in DOMAIN before /\ before[r] = content
                       THEN calls(r) = {}
                       ELSE \E i \in 1..Len(ran.replaced) :
                               /\ calls(r) = {i}
                               /\ ran.replaced[i] =
                                    [line_no |-> r, start |-> S,
                                     end |-> S + Cached(before, r),
                                     content |-> content]

\* an update has painted, and the next one replaces a cached line of
\* another length that does not start the view, and skips a row
C23_CachedRowReplaced ==
    /\ terminal_buffer.replaced # <<>>
    /\ \E order \in Orders(emulator.screen.dirty) :
          LET lines == dirty_lines(emulator, order)
              ran == terminal_view_update_run(terminal_buffer, emulator,
                                              order).terminal_buffer
          IN /\ \E i \in 1..Len(ran.replaced) :
                   /\ ran.replaced[i].start > 0
                   /\ ran.replaced[i].end > ran.replaced[i].start
                   /\ Len(ran.replaced[i].content)
                        # ran.replaced[i].end - ran.replaced[i].start
             /\ \E r \in DOMAIN lines :
                   \A i \in 1..Len(ran.replaced) :
                       ran.replaced[i].line_no # r

(***************************************************************************)
(* SpecColors: convert_pyte_buffer_to_colormap on the buffer of the        *)
(* emulator, whose cells carry colours, for the rows a caller asks for.    *)
(* A colour is the pair the function builds, <<bg, fg>> or, for a cell     *)
(* with reverse set, <<fg, bg>>.                                           *)
(***************************************************************************)
\* dict[key] = value
setitem(dict, key, value) ==
    [k \in (DOMAIN dict) \cup {key} |-> IF k = key THEN value ELSE dict[k]]

\* the colour of a cell without the test of char.reverse
char_color_unreversed(char) ==
    <<IF char.bg = "default" THEN "black" ELSE char.bg,
      IF char.fg = "default" THEN "white" ELSE char.fg>>

\* the colour of a cell, as the loop over the line computes it; "is" on the
\* literal "default" compares the one interned string of the colours
char_color(char) ==
    LET bg == IF char.bg = "default" THEN "black" ELSE char.bg
        fg == IF char.fg = "default" THEN "white" ELSE char.fg
    IN IF char.reverse THEN <<fg, bg>> ELSE <<bg, fg>>

\* the body of "for char in line": st holds the colour map of the line and
\* last_color, last_index, field_length; char_index counts from 0
RECURSIVE colormap_chars(_, _, _)
colormap_chars(line, char_index, st) ==
    IF char_index >= Len(line) THEN st.fields
    ELSE LET color == char_color(line[char_index + 1])
             same == st.last_color = color
             closed ==
                 IF ~same /\ st.last_color # <<"black", "white">>
                 THEN setitem(st.fields, st.last_index,
                              [color |-> st.last_color,
                               field_length |-> st.field_length])
                 ELSE st.fields
             last_color == color
             last_index == IF same THEN st.last_index ELSE char_index
             field_length == IF same THEN st.field_length + 1 ELSE 1
             fields ==
                 IF last_color # <<"black", "white">>
                 THEN setitem(closed, last_index,
                              [color |-> last_color,
                               field_length |-> field_length])
                 ELSE closed
         IN colormap_chars(line, char_index + 1,
                           [fields |-> fields, last_color |-> last_color,
                            last_index |-> last_index,
                            field_length |-> field_length])

\* convert_pyte_buffer_to_colormap; lines is the sequence of the rows asked
\* for, in the order of iteration.  A row gets a key when a field is stored
\* under it.
RECURSIVE convert_pyte_buffer_to_colormap(_, _, _)
convert_pyte_buffer_to_colormap(buffer, lines, color_map) ==
    IF lines = <<>> THEN color_map
    ELSE IF Head(lines) > Len(buffer) - 1 THEN color_map
    ELSE LET line == buffer[Head(lines) + 1]
             fields ==
                 colormap_chars(line, 0,
                                [fields |-> <<>>,
                                 last_color |-> char_color(line[1]),
                                 last_index |-> 0, field_length |-> 0])
         IN IF Len(line) = 0 \/ DOMAIN fields = {}
            THEN convert_pyte_buffer_to_colormap(buffer, Tail(lines),
                                                 color_map)
            ELSE convert_pyte_buffer_to_colormap(
                     buffer, Tail(lines),
                     setitem(color_map, Head(lines), fields))

\* PyteTerminalEmulator.color_map
emulator_color_map(emu, lines) ==
    convert_pyte_buffer_to_colormap(emu.screen.buffer, lines, <<>>)

ColorLines == 2

ColorColumns == 3

\* the cells of the model: the default cell, a red background, reverse
\* video of the default colours, and white on black spelled out
ColorCells ==
    {default_char,
     [default_char EXCEPT !.bg = "red"],
     [default_char EXCEPT !.reverse = TRUE],
     [default_char EXCEPT !.bg = "black", !.fg = "white"]}

InitColors ==
    /\ terminal_buffer = SublimeTerminalBuffer
    /\ screen = Screen(MaxColumns, MaxLines)
    /\ stream = Stream
    /\ shell = LinuxPty
    /\ \E buffer \in [1..ColorLines -> [1..ColorColumns -> ColorCells]] :
          emulator =
              [PyteTerminalEmulator(ColorColumns, ColorLines, 1, Half)
                 EXCEPT !.screen.buffer = buffer]
    /\ session = TerminalView(FALSE)

NextColors ==
    \* color_map(dirty_lines.keys()) of terminal_view_update
    \/ /\ \E rows \in SUBSET Range(0, ColorLines) :
             \E lines \in Orders(rows) :
                 terminal_buffer' =
                     [terminal_buffer EXCEPT
                        !.color_map = emulator_color_map(emulator, lines)]
       /\ UNCHANGED <<screen, stream, shell, emulator, session>>

SpecColors == InitColors /\ [][NextColors]_vars

(***************************************************************************)
(* C24: for every row asked for inside the buffer, the runs of color_map   *)
(* are keyed by their start column and do not overlap; every cell whose    *)
(* colour (default bg as black, default fg as white, the pair swapped      *)
(* under reverse) is not (black, white) lies in exactly one run, which     *)
(* carries that colour; each run is a maximal stretch of cells of one      *)
(* colour and field_length is its length; no run covers a (black, white)   *)
(* cell; painting the runs over (black, white) gives back every cell's     *)
(* colour.                                                                 *)
(***************************************************************************)
EffectiveColor(char) ==
    LET pair == <<IF char.bg = "default" THEN "black" ELSE char.bg,
                  IF char.fg = "default" THEN "white" ELSE char.fg>>
    IN IF char.reverse THEN <<pair[2], pair[1]>> ELSE pair

Baseline == <<"black", "white">>

\* the colour of column x after the runs are painted over the baseline
Rendered(runs, x) ==
    LET over == {k \in DOMAIN runs : k <= x /\ x < k + runs[k].field_length}
    IN IF over = {} THEN Baseline
       ELSE runs[CHOOSE k \in over : \A q \in over : q <= k].color

cursor_is_hidden(emu) == emu.screen.cursor.hidden

PagedAway(emu) ==
    emu.screen.history.size - emu.screen.history.position >= emu.screen.lines

C25_HiddenWhenPagedAway == PagedAway(emulator) => cursor_is_hidden(emulator)

ByteStream == [parser |-> Stream, buffer |-> <<>>, fed |-> <<>>, text |-> <<>>]

\* the incremental decoder of utf-8 on input, the pending bytes first;
\* errors is "strict" or "replace".  A sequence cut by the end of the input
\* stays pending.
RECURSIVE utf_8_decode(_, _, _)
utf_8_decode(input, errors, text) ==
    IF input = <<>>
    THEN [raised |-> FALSE, text |-> text, state |-> <<>>]
    ELSE IF Head(input) = "a"
    THEN utf_8_decode(Tail(input), errors, Append(text, "a"))
    ELSE IF Head(input) = "C3" /\ Len(input) = 1
    THEN [raised |-> FALSE, text |-> text, state |-> input]
    ELSE IF Head(input) = "C3" /\ input[2] = "A9"
    THEN utf_8_decode(Tail(Tail(input)), errors, Append(text, "U+00E9"))
    ELSE IF errors = "strict"
    THEN [raised |-> TRUE, text |-> <<>>, state |-> <<>>]
    ELSE utf_8_decode(Tail(input), errors, Append(text, "U+FFFD"))

\* the decoding table of cp437: every byte is a character
cp437_decode(input) ==
    [i \in 1..Len(input) |->
        CASE input[i] = "a" -> "a"
          [] input[i] = "C3" -> "U+251C"
          [] input[i] = "A9" -> "U+2310"
          [] input[i] = "FF" -> "U+00A0"]

\* decoder.setstate(self.buffer), decoder.decode(chars), decoder.getstate().
\* The decoder of a charmap codec keeps no state: its setstate does
\* nothing and its getstate gives (b"", 0).
decoder_decode(encoding, buffer, chars) ==
    CASE encoding = <<"utf-8", "strict">> ->
            utf_8_decode(buffer \o chars, "strict", <<>>)
      [] encoding = <<"cp437", "strict">> ->
            [raised |-> FALSE, text |-> cp437_decode(chars), state |-> <<>>]
      [] encoding = <<"utf-8", "replace">> ->
            utf_8_decode(buffer \o chars, "replace", <<>>)

encodings ==
    << <<"utf-8", "strict">>, <<"cp437", "strict">>, <<"utf-8", "replace">> >>

\* the loop over self.decoders of ByteStream.feed, from decoder idx on
RECURSIVE decoders_loop(_, _, _)
decoders_loop(idx, buffer, chars) ==
    IF idx > Len(encodings)
    THEN [raised |-> TRUE, text |-> <<>>, state |-> buffer]
    ELSE LET decoded == decoder_decode(encodings[idx], buffer, chars)
         IN IF decoded.raised THEN decoders_loop(idx + 1, buffer, chars)
            ELSE decoded

\* ByteStream.feed: raised stands for ValueError("unknown encoding")
bytes_feed(bs, sc, chars) ==
    LET decoded == decoders_loop(1, bs.buffer, chars)
        parsed == feed(bs.parser, sc, decoded.text)
    IN IF decoded.raised
       THEN [stream |-> [bs EXCEPT !.fed = Append(@, chars)], screen |-> sc,
             raised |-> TRUE]
       ELSE [stream |-> [parser |-> parsed.stream, buffer |-> decoded.state,
                         fed |-> Append(bs.fed, chars),
                         text |-> bs.text \o decoded.text],
             screen |-> parsed.screen,
             raised |-> FALSE]

MaxChunks == 2

MaxChunk == 2

Bytes == {"a", "C3", "A9", "FF"}

Chunks == UNION {[1..n -> Bytes] : n \in 1..MaxChunk}

InitBytes ==
    /\ terminal_buffer = SublimeTerminalBuffer
    /\ screen = Screen(MaxColumns, MaxLines)
    /\ stream = ByteStream
    /\ shell = LinuxPty
    /\ emulator = PyteTerminalEmulator(FacadeColumns, FacadeLines, 1, Half)
    /\ session = TerminalView(FALSE)

NextBytes ==
    \* ByteStream.feed
    \/ /\ Len(stream.fed) < MaxChunks
       /\ \E chars \in Chunks :
             LET fed(r) == stream' = r.stream /\ screen' = r.screen
             IN fed(bytes_feed(stream, screen, chars))
       /\ UNCHANGED <<shell, emulator, session, terminal_buffer>>

SpecBytes == InitBytes /\ [][NextBytes]_vars

(***************************************************************************)
(* C26: over any sequence of chunks fed to ByteStream.feed every byte is   *)
(* decoded exactly once: the text dispatched has a character for every     *)
(* byte fed and for no other, a multibyte sequence split across two calls  *)
(* is decoded as one character, the bytes pending from the call before are *)
(* not lost when a chunk falls back to the next decoder, and feed never    *)
(* raises because the last decoder always succeeds.                        *)
(***************************************************************************)
\* the bytes a character of the text was decoded from
BytesOf(char) ==
    CASE char = "a" -> <<"a">>
      [] char = "U+00E9" -> <<"C3", "A9">>
      [] char = "U+251C" -> <<"C3">>
      [] char = "U+2310" -> <<"A9">>
      [] char = "U+00A0" -> <<"FF">>
      [] OTHER -> <<"?">>

RECURSIVE Flat(_)
Flat(seqs) == IF seqs = <<>> THEN <<>> ELSE Head(seqs) \o Flat(Tail(seqs))

C26_EveryByteDecodedOnce ==
    /\ Flat([i \in 1..Len(stream.text) |-> BytesOf(stream.text[i])])
           \o stream.buffer
         = Flat(stream.fed)
    /\ stream.fed = << <<"C3">>, <<"A9">> >> => stream.text = <<"U+00E9">>
    /\ \A chars \in Chunks : ~bytes_feed(stream, screen, chars).raised

\* what holds: a sequence split across two calls is one character, and
\* feed does not raise for want of a decoder
C26_SplitSequenceJoined ==
    /\ stream.fed = << <<"C3">>, <<"A9">> >> =>
           stream.text = <<"U+00E9">> /\ stream.buffer = <<>>
    /\ \A chars \in Chunks : ~bytes_feed(stream, screen, chars).raised

\* C3 was pending, the next chunk was not its continuation and was decoded
\* by cp437: the text has no character for C3
C26_PendingByteLost ==
    /\ stream.fed = << <<"C3">>, <<"FF">> >>
    /\ stream.text = <<"U+00A0">>
    /\ stream.buffer = <<>>

(***************************************************************************)
(* SpecTabs: an emulator wide enough for a tab stop.  The child writes     *)
(* text, tabs, carriage returns and RIS (ESC c); the view is resized.      *)
(***************************************************************************)
TabColumns == 10

TabWidths == {TabColumns, TabColumns + 7}

\* text is written in the first columns of a row only
TabText == 3

InitTabs ==
    /\ terminal_buffer = SublimeTerminalBuffer
    /\ screen = Screen(MaxColumns, MaxLines)
    /\ stream = Stream
    /\ shell = LinuxPty
    /\ emulator = PyteTerminalEmulator(TabColumns, 1, 1, Half)
    /\ session = TerminalView(FALSE)

NextTabs ==
    \* PyteTerminalEmulator.feed
    \/ /\ ~scroll_to_bottom_hangs(emulator.screen)
       /\ \E data \in {<<"HT">>, <<"CR">>, <<"LF">>, <<ESC, "c">>}
                        \cup IF emulator.screen.cursor.x < TabText
                             THEN {<<"a">>} ELSE {} :
             EmulatorOp(emulator_feed(emulator, data))
    \* PyteTerminalEmulator.resize
    \/ /\ ~scroll_to_bottom_hangs(emulator.screen)
       /\ \E cols \in TabWidths :
             EmulatorOp(emulator_resize(emulator, 1, cols))

SpecTabs == InitTabs /\ [][NextTabs]_vars

(***************************************************************************)
(* C27: at construction, after a terminal reset (RIS, reset()) and after a *)
(* resize the tab stops of the emulator screen are exactly the columns     *)
(* 8, 16, 24, ... below the screen width, so tab() from column 0 moves the *)
(* cursor to column 8.  No action of SpecTabs sets or clears a tab stop,   *)
(* so every state is one of these.                                         *)
(***************************************************************************)
EveryEighth(columns) == {x \in Range(8, columns) : x % 8 = 0}

C27_TabStopsEveryEighth ==
    /\ emulator.screen.tabstops = EveryEighth(emulator.screen.columns)
    /\ tab([emulator.screen EXCEPT !.cursor.x = 0]).cursor.x = 8

\* what holds: the stops at construction and after a resize
C27_TabStopsAfterResize ==
    /\ PyteTerminalEmulator(TabColumns, 1, 1, Half).screen.tabstops
         = EveryEighth(TabColumns)
    /\ \A cols \in TabWidths :
          ~scroll_to_bottom_hangs(emulator.screen) =>
              emulator_resize(emulator, 1, cols).screen.tabstops
                  = EveryEighth(cols)

\* RIS was fed, then a tab: the stop is at column 7
C27_TabToColumn7 ==
    /\ emulator.screen.tabstops = {7}
    /\ emulator.screen.cursor.x = 7
    /\ emulator.screen.columns = TabColumns

(***************************************************************************)
(* SpecViewport: the layout of the view changes (the window is resized,    *)
(* the font is changed), and the worker resizes the terminal to it with    *)
(* TerminalView._resize_screen_if_needed.                                  *)
(***************************************************************************)
\* SublimeTerminalBuffer.view_size: (nb_rows, nb_columns).  int() of a
\* quotient of sizes, which are not negative, is the integer division.
view_size(tb) ==
    LET pixel_width == tb.viewport_extent[1]
        pixel_height == tb.viewport_extent[2]
        pixel_per_line == tb.line_height
        pixel_per_char == tb.em_width
    IN IF pixel_per_line = 0 \/ pixel_per_char = 0 THEN <<0, 0>>
       ELSE LET nb_columns == (pixel_width \div pixel_per_char)
                                 - tb.right_margin
                nb_rows == (pixel_height \div pixel_per_line)
                              - tb.bottom_margin
            IN <<IF nb_rows < 1 THEN 1 ELSE nb_rows,
                 IF nb_columns < 1 THEN 1 ELSE nb_columns>>

\* TerminalView._resize_screen_if_needed, the child running
resize_screen_if_needed(t, sh, tb, emu) ==
    LET size == view_size(tb)
        sized == update_terminal_size(tb, emu, size[1], size[2])
    IN IF size # <<t.terminal_rows, t.terminal_columns>>
       THEN [session |-> [t EXCEPT !.terminal_rows = size[1],
                                   !.terminal_columns = size[2]],
             shell |-> update_screen_size(sh, size[1], size[2]),
             terminal_buffer |-> sized.terminal_buffer,
             emulator |-> sized.emulator]
       ELSE [session |-> t, shell |-> sh, terminal_buffer |-> tb,
             emulator |-> emu]

\* the pixels of the model
ViewportPixels == 20

LinePixels == 10

CharPixels == 5

InitViewport ==
    /\ terminal_buffer = SublimeTerminalBuffer
    /\ screen = Screen(MaxColumns, MaxLines)
    /\ stream = Stream
    /\ shell = LinuxPty
    /\ emulator = PyteTerminalEmulator(FacadeColumns, FacadeLines, 1, Half)
    /\ session = TerminalView(FALSE)

NextViewport ==
    \* the window is resized, the font is changed, the view is laid out
    \/ /\ \E w \in {0, LinePixels, ViewportPixels},
             h \in {0, LinePixels, ViewportPixels},
             line \in {0, LinePixels}, em \in {0, CharPixels} :
             terminal_buffer' =
                 [terminal_buffer EXCEPT !.viewport_extent = <<w, h>>,
                                         !.line_height = line,
                                         !.em_width = em]
       /\ UNCHANGED <<screen, stream, shell, emulator, session>>
    \* the user sets terminal_view_right_margin
    \/ /\ \E margin \in {0, 3} :
             terminal_buffer' =
                 [terminal_buffer EXCEPT !.right_margin = margin]
       /\ UNCHANGED <<screen, stream, shell, emulator, session>>
    \* TerminalView._resize_screen_if_needed
    \/ /\ ~scroll_to_bottom_hangs(emulator.screen)
       /\ LET resized == resize_screen_if_needed(session, shell,
                                                 terminal_buffer, emulator)
          IN /\ session' = resized.session
             /\ shell' = resized.shell
             /\ terminal_buffer' = resized.terminal_buffer
             /\ emulator' = resized.emulator
       /\ UNCHANGED <<screen, stream>>

SpecViewport == InitViewport /\ [][NextViewport]_vars

(***************************************************************************)
(* C28: for every viewport view_size() returns                             *)
(* cols = max(1, floor(w / em) - right_margin) and                         *)
(* rows = max(1, floor(h / line_height) - bottom_margin), so both are at   *)
(* least 1; 300 x 200 pixels with a line height of 10, an em width of 5    *)
(* and a right margin of 3 give (20, 57).                                  *)
(***************************************************************************)
ViewSizeFormula(tb) ==
    <<Max(1, (tb.viewport_extent[2] \div tb.line_height) - tb.bottom_margin),
      Max(1, (tb.viewport_extent[1] \div tb.em_width) - tb.right_margin)>>

ViewSizeExample ==
    view_size([SublimeTerminalBuffer EXCEPT
                 !.viewport_extent = <<300, 200>>, !.line_height = 10,
                 !.em_width = 5, !.right_margin = 3]) = <<20, 57>>

C28_ViewSizeAtLeastOne ==
    /\ view_size(terminal_buffer)[1] >= 1
    /\ view_size(terminal_buffer)[2] >= 1
    /\ (terminal_buffer.line_height # 0 /\ terminal_buffer.em_width # 0) =>
           view_size(terminal_buffer) = ViewSizeFormula(terminal_buffer)
    /\ ViewSizeExample

\* what holds: the formula and the example, for a view whose line height
\* and em width are not zero
C28_ViewSizeOfLaidOutView ==
    /\ (terminal_buffer.line_height # 0 /\ terminal_buffer.em_width # 0) =>
           /\ view_size(terminal_buffer) = ViewSizeFormula(terminal_buffer)
           /\ view_size(terminal_buffer)[1] >= 1
           /\ view_size(terminal_buffer)[2] >= 1
    /\ ViewSizeExample

\* the terminal was 1 x 4; the em width became 0, and the worker took
\* (0, 0) for the size of the view and told the pty
C28_ResizedToZero ==
    /\ terminal_buffer.em_width = 0
    /\ view_size(terminal_buffer) = <<0, 0>>
    /\ session.terminal_rows = 0
    /\ session.terminal_columns = 0
    /\ shell.winsize = <<0, 0>>
    /\ EmulatorSize(emulator) = <<1, 4>>

(***************************************************************************)
(* SpecScroll: the user asks for a scroll with terminal_view_scroll, the   *)
(* child writes, and the worker calls update_view, which scrolls as asked  *)
(* and then paints.  session.raised is the exception that ended the        *)
(* worker.                                                                 *)
(***************************************************************************)
\* TerminalViewScroll.run: the request stored in the settings of the view
scroll_run(tb, forward, line) ==
    [tb EXCEPT !.scroll = <<IF line THEN "line" ELSE "page",
                            IF forward THEN "down" ELSE "up">>]

\* SublimeTerminalBuffer._scroll_terminal_if_requested.  PyteTerminalEmulator
\* has no prev_line and no next_line: the call raises AttributeError before
\* the setting is cleared.
scroll_terminal_if_requested(tb, emu) ==
    IF tb.scroll = <<>>
    THEN [terminal_buffer |-> tb, emulator |-> emu, raised |-> ""]
    ELSE IF tb.scroll[1] = "line"
    THEN [terminal_buffer |-> tb, emulator |-> emu,
          raised |-> "AttributeError"]
    ELSE [terminal_buffer |-> [tb EXCEPT !.scroll = <<>>],
          emulator |-> IF tb.scroll[2] = "up" THEN emulator_prev_page(emu)
                       ELSE emulator_next_page(emu),
          raised |-> ""]

\* SublimeTerminalBuffer.update_view
update_view(tb, emu, order) ==
    LET scrolled == scroll_terminal_if_requested(tb, emu)
        updated == terminal_view_update_run(scrolled.terminal_buffer,
                                            scrolled.emulator, order)
    IN IF scrolled.raised # "" \/ ~scrolled.emulator.modified THEN scrolled
       ELSE [terminal_buffer |-> updated.terminal_buffer,
             emulator |-> updated.emulator, raised |-> ""]

InitScroll ==
    /\ terminal_buffer = SublimeTerminalBuffer
    /\ screen = Screen(MaxColumns, MaxLines)
    /\ stream = Stream
    /\ shell = LinuxPty
    /\ emulator = PyteTerminalEmulator(FacadeColumns, FacadeLines,
                                       FacadeHistory, Half)
    /\ session = TerminalView(FALSE)

NextScroll ==
    \* TerminalViewScroll.run
    \/ /\ \E forward \in BOOLEAN, line \in BOOLEAN :
             terminal_buffer' = scroll_run(terminal_buffer, forward, line)
       /\ UNCHANGED <<screen, stream, shell, emulator, session>>
    \* SublimeTerminalBuffer.insert_data
    \/ /\ session.pc = "RUN"
       /\ ~scroll_to_bottom_hangs(emulator.screen)
       /\ \E data \in {<<"a">>, <<"LF">>} :
             emulator' = emulator_feed(emulator, data)
       /\ UNCHANGED <<screen, stream, shell, session, terminal_buffer>>
    \* SublimeTerminalBuffer.update_view
    \/ /\ session.pc = "RUN"
       /\ \E order \in Orders(
                 scroll_terminal_if_requested(terminal_buffer, emulator)
                     .emulator.screen.dirty) :
             LET updated == update_view(terminal_buffer, emulator, order)
             IN /\ terminal_buffer' = updated.terminal_buffer
                /\ emulator' = updated.emulator
                /\ session' =
                      IF updated.raised = "" THEN session
                      ELSE [session EXCEPT !.pc = "RAISED",
                                           !.raised = updated.raised]
       /\ UNCHANGED <<screen, stream, shell>>

SpecScroll == InitScroll /\ [][NextScroll]_vars

(***************************************************************************)
(* C29: a scroll request with line=true is consumed by the next update     *)
(* without error and moves the window shown by exactly one row, as         *)
(* prev_page and next_page do with mid = 1, and all rows are marked dirty. *)
(***************************************************************************)
\* the screen one row up or down in the history: what prev_page and
\* next_page do when mid is 1
OneRow(s, direction) ==
    LET n == Len(s.buffer)
        top == s.history.top
        bottom == s.history.bottom
    IN IF direction = "up" /\ s.history.position > s.lines /\ top # <<>>
       THEN <<top[Len(top)]>> \o SubSeq(s.buffer, 1, n - 1)
       ELSE IF direction = "down" /\ s.history.position < s.history.size
               /\ bottom # <<>>
       THEN SubSeq(s.buffer, 2, n) \o <<bottom[1]>>
       ELSE s.buffer

C29_LineScroll ==
    (terminal_buffer.scroll # <<>> /\ terminal_buffer.scroll[1] = "line") =>
        LET scrolled == scroll_terminal_if_requested(terminal_buffer,
                                                     emulator)
        IN /\ scrolled.raised = ""
           /\ scrolled.terminal_buffer.scroll = <<>>
           /\ Text(scrolled.emulator.screen.buffer)
                = Text(OneRow(emulator.screen, terminal_buffer.scroll[2]))
           /\ (scrolled.emulator.screen.buffer # emulator.screen.buffer) =>
                 scrolled.emulator.screen.dirty
                     = Range(0, emulator.screen.lines)

\* what holds: a request for a page is consumed without error
C29_PageScroll ==
    (terminal_buffer.scroll # <<>> /\ terminal_buffer.scroll[1] = "page") =>
        LET scrolled == scroll_terminal_if_requested(terminal_buffer,
                                                     emulator)
        IN /\ scrolled.raised = ""
           /\ scrolled.terminal_buffer.scroll = <<>>
           /\ scrolled.emulator.modified

\* a row is in the history, the user asked to scroll one line up, and the
\* update raised: the request is still there
C29_LineScrollRaised ==
    /\ session.pc = "RAISED"
    /\ session.raised = "AttributeError"
    /\ terminal_buffer.scroll = <<"line", "up">>
    /\ emulator.screen.history.top # <<>>

(***************************************************************************)
(* SpecFrames: the worker and the command channel of the view.  The worker *)
(* feeds the emulator (insert_data) and asks for terminal_view_update      *)
(* (update_view) without waiting for it; the command runs on the channel   *)
(* of the view in two steps the worker can come between: it reads          *)
(* dirty_lines() and paints, then it calls clear_dirty().  Nothing in the  *)
(* emulator or in the buffer locks one against the other.                  *)
(***************************************************************************)
\* TerminalViewUpdate.run up to _update_lines: the dirty rows are painted
update_run_paint(tb, emu, order) ==
    [terminal_view_update_run(tb, emu, order).terminal_buffer
       EXCEPT !.update = "painted"]

\* TerminalViewUpdate.run from _update_cursor on: clear_dirty
update_run_clear(tb, emu) ==
    [terminal_buffer |-> [tb EXCEPT !.update = "idle"],
     emulator |-> clear_dirty(emu)]

InitFrames ==
    /\ terminal_buffer = SublimeTerminalBuffer
    /\ screen = Screen(MaxColumns, MaxLines)
    /\ stream = Stream
    /\ shell = LinuxPty
    /\ emulator = PyteTerminalEmulator(FacadeColumns, FacadeLines, 1, Half)
    /\ session = TerminalView(FALSE)

NextFrames ==
    \* the worker: SublimeTerminalBuffer.insert_data
    \/ /\ ~scroll_to_bottom_hangs(emulator.screen)
       /\ \E data \in {<<"a">>, <<"b">>, <<"LF">>} :
             emulator' = emulator_feed(emulator, data)
       /\ UNCHANGED <<screen, stream, shell, session, terminal_buffer>>
    \* the worker: SublimeTerminalBuffer.update_view asks for the command
    \/ /\ emulator.modified
       /\ terminal_buffer.update = "idle"
       /\ terminal_buffer' = [terminal_buffer EXCEPT !.update = "queued"]
       /\ UNCHANGED <<screen, stream, shell, emulator, session>>
    \* the view: TerminalViewUpdate.run reads dirty_lines() and paints
    \/ /\ terminal_buffer.update = "queued"
       /\ \E order \in Orders(emulator.screen.dirty) :
             terminal_buffer' =
                 update_run_paint(terminal_buffer, emulator, order)
       /\ UNCHANGED <<screen, stream, shell, emulator, session>>
    \* the view: TerminalViewUpdate.run calls clear_dirty()
    \/ /\ terminal_buffer.update = "painted"
       /\ LET cleared == update_run_clear(terminal_buffer, emulator)
          IN /\ terminal_buffer' = cleared.terminal_buffer
             /\ emulator' = cleared.emulator
       /\ UNCHANGED <<screen, stream, shell, session>>

SpecFrames == InitFrames /\ [][NextFrames]_vars

(***************************************************************************)
(* C30: under every interleaving of the worker's feed with a frame of      *)
(* terminal_view_update, no row a feed made dirty leaves the dirty set     *)
(* before it is painted, and the modified flag is never cleared while a    *)
(* change is not painted: whenever the emulator is not modified and has no *)
(* dirty row, the view shows every row of the screen as the emulator has   *)
(* it.                                                                     *)
(***************************************************************************)
Painted(tb, emu, r) ==
    /\ r \in DOMAIN tb.view_content_cache
    /\ tb.view_content_cache[r] = Append(display(emu.screen)[r + 1], "LF")

DirtyLines == 2

DirtyColumns == 2

InitDirty ==
    /\ terminal_buffer = SublimeTerminalBuffer
    /\ screen = [Screen(DirtyColumns, DirtyLines) EXCEPT !.dirty = {}]
    /\ stream = Stream
    /\ shell = LinuxPty
    /\ emulator = PyteTerminalEmulator(FacadeColumns, FacadeLines, 1, Half)
    /\ session = TerminalView(FALSE)

\* no cell of the screen carries a combining mark
Unmarked(s) ==
    \A y \in DOMAIN s.buffer : \A x \in DOMAIN s.buffer[y] :
        s.buffer[y][x].data \in {" ", "a"}

NextDirty ==
    \/ ScreenOp(draw(screen, <<"a">>))
    \/ Unmarked(screen) /\ ScreenOp(draw(screen, <<"^">>))
    \/ \E line \in 1..DirtyLines, column \in 1..DirtyColumns :
          ScreenOp(cursor_position(screen, line, column))
    \/ ScreenOp(linefeed(screen))
    \/ ScreenOp(reverse_index(screen))
    \/ \E how \in {0, 1, 2} : ScreenOp(erase_in_display(screen, how))
    \/ \E how \in {0, 1, 2} : ScreenOp(erase_in_line(screen, how))
    \/ ScreenOp(erase_characters(screen, 1))
    \/ ScreenOp(insert_lines(screen, 1))
    \/ ScreenOp(delete_lines(screen, 1))
    \/ ScreenOp(insert_characters(screen, 1))
    \/ ScreenOp(delete_characters(screen, 1))
    \/ ScreenOp(set_mode(screen, {DECSCNM \div 32}, TRUE))
    \/ ScreenOp(reset_mode(screen, {DECSCNM \div 32}, TRUE))
    \/ ScreenOp(set_mode(screen, {DECSCNM}, FALSE))
    \/ ScreenOp(reset_mode(screen, {DECSCNM}, FALSE))

SpecDirty == InitDirty /\ [][NextDirty]_vars

\* does row y of the screen show anything else in b than in a?
RowDiffers(a, b, y) ==
    \E x \in Range(0, a.columns) :
        LineGet(BufGet(a.buffer, y), x) # LineGet(BufGet(b.buffer, y), x)

(***************************************************************************)
(* C31: after any single screen operation, every row in which a cell's     *)
(* character or attributes differ from before the operation is in the      *)
(* dirty set, also for a combining character drawn onto the last cell of   *)
(* the row above and for DECSCNM set or reset in either dispatch.          *)
(***************************************************************************)
C31_ChangedRowsDirty ==
    [][\A y \in Range(0, screen.lines) :
          RowDiffers(screen, screen', y) => y \in screen'.dirty]_vars

\* the last cell of row 0 carries a combining mark and row 0 was never
\* marked dirty
C31_CombinedOntoCleanRow ==
    /\ LineGet(BufGet(screen.buffer, 0), screen.columns - 1).data = " ^"
    /\ 0 \notin screen.dirty

\* the other operations of SpecDirty, applied to s
DirtyResults(s) ==
    {draw(s, <<"a">>), linefeed(s), reverse_index(s),
     erase_in_display(s, 0), erase_in_display(s, 1), erase_in_display(s, 2),
     erase_in_line(s, 0), erase_in_line(s, 1), erase_in_line(s, 2),
     erase_characters(s, 1), insert_lines(s, 1), delete_lines(s, 1),
     insert_characters(s, 1), delete_characters(s, 1),
     set_mode(s, {DECSCNM \div 32}, TRUE),
     reset_mode(s, {DECSCNM \div 32}, TRUE)}

\* the same for the operations other than the draw of a combining
\* character and DECSCNM in the non-private dispatch
C31_OtherOperationsMark ==
    \A t \in DirtyResults([screen EXCEPT !.dirty = {}]) :
        \A y \in Range(0, screen.lines) :
            RowDiffers(screen, t, y) => y \in t.dirty

\* what row r of the screen shows, cell by cell
Row(s, r) == [x \in Range(0, s.columns) |-> LineGet(BufGet(s.buffer, r), x)]

\* delete_lines(n) shifts the rows below the cursor up inside the margins
DeleteLinesShifts(s, n) ==
    LET t == delete_lines(s, n)
        y == s.cursor.y
        bottom == s.margins.bottom
    IN /\ \A r \in Range(0, s.lines) :
             Row(t, r) =
                 CASE r < y \/ r > bottom -> Row(s, r)
                   [] r + n <= bottom -> Row(s, r + n)
                   [] OTHER -> [x \in Range(0, s.columns) |-> default_char]
       /\ t.cursor.x = 0
       /\ t.cursor.y = y

(***************************************************************************)
(* C32: delete_lines(n) with the cursor on row y inside the margins makes  *)
(* each row r in y..bottom-n show what row r+n showed, blanks the rows     *)
(* bottom-n+1..bottom, leaves the rows outside y..bottom as they were and  *)
(* moves the cursor to column 0, whichever rows the sparse buffer holds.   *)
(***************************************************************************)
C32_DeleteLines ==
    (screen.margins.top <= screen.cursor.y
        /\ screen.cursor.y <= screen.margins.bottom) =>
    \A n \in 1..MarginLines : DeleteLinesShifts(screen, n)

\* the same when the buffer holds every row from the cursor to the bottom
\* margin
C32_DeleteLinesOfStoredRows ==
    (/\ screen.margins.top <= screen.cursor.y
     /\ screen.cursor.y <= screen.margins.bottom
     /\ Range(screen.cursor.y, screen.margins.bottom + 1)
           \subseteq DOMAIN screen.buffer) =>
    \A n \in 1..MarginLines : DeleteLinesShifts(screen, n)

\* the row of the cursor shows a character, the row below was never
\* written, and delete_lines(1) leaves the character where it is
C32_RowBelowNeverWritten ==
    /\ screen.margins.top <= screen.cursor.y
    /\ screen.cursor.y < screen.margins.bottom
    /\ LineGet(BufGet(screen.buffer, screen.cursor.y), 0).data = "a"
    /\ (screen.cursor.y + 1) \notin DOMAIN screen.buffer
    /\ LineGet(BufGet(delete_lines(screen, 1).buffer, screen.cursor.y),
               0).data = "a"

\* the cached lines of the rows below row n, one after the other
RECURSIVE CachedText(_, _)
CachedText(cache, n) ==
    IF n = 0 THEN <<>>
    ELSE CachedText(cache, n - 1)
           \o (IF (n - 1) \in DOMAIN cache THEN cache[n - 1] ELSE <<>>)

(***************************************************************************)
(* C33: after any sequence of view updates and changes of the terminal     *)
(* size, shrinking and growing the row count included, the line cache      *)
(* equals the content of the view row by row, and once the view is up to   *)
(* date every row of the display of the emulator is in the view.           *)
(***************************************************************************)
C33_CacheEqualsView ==
    /\ CachedText(terminal_buffer.view_content_cache, ViewLines)
          = terminal_buffer.text
    /\ ~emulator.modified =>
          Len(terminal_buffer.text)
              = emulator.screen.lines * (emulator.screen.columns + 1)

\* what holds: the view is never longer than the cache says, its text is
\* the beginning of the cached lines
C33_ViewWithinCache ==
    LET cached == CachedText(terminal_buffer.view_content_cache, ViewLines)
    IN /\ Len(terminal_buffer.text) <= Len(cached)
       /\ terminal_buffer.text = SubSeq(cached, 1, Len(terminal_buffer.text))

\* the view was shrunk to one row and grown again, the update is done, and
\* row 1 is cached but not in the view
C33_CachedRowNotInView ==
    /\ ~emulator.modified
    /\ emulator.screen.lines = ViewLines
    /\ 1 \in DOMAIN terminal_buffer.view_content_cache
    /\ Len(terminal_buffer.text)
          = Len(terminal_buffer.view_content_cache[0])

(***************************************************************************)
(* C34: each index() with the cursor on the bottom margin appends exactly  *)
(* the row that leaves the top margin to history.top, and each             *)
(* reverse_index() on the top margin appends the row that leaves the       *)
(* bottom margin to history.bottom; history.top never holds more lines     *)
(* than the configured history size, and when it is full the oldest line   *)
(* is dropped first.                                                       *)
(***************************************************************************)
C34_HistoryQueues ==
    LET s == emulator.screen
        top == s.history.top
        bottom == s.history.bottom
        down == history_index(s).history
        up == history_reverse_index(s).history
    IN /\ Len(top) <= FacadeHistory
       /\ Len(down.top) <= FacadeHistory
       /\ down.bottom = bottom
       /\ up.top = top
       /\ down.top =
             IF s.cursor.y = s.margins.bottom
             THEN Append(IF Len(top) < FacadeHistory THEN top ELSE Tail(top),
                         s.buffer[s.margins.top + 1])
             ELSE top
       /\ up.bottom \in
             IF s.cursor.y = s.margins.top
             THEN {Append(bottom, s.buffer[s.margins.bottom + 1]),
                   Append(IF bottom = <<>> THEN bottom ELSE Tail(bottom),
                          s.buffer[s.margins.bottom + 1])}
             ELSE {bottom}

\* the cursor is on the bottom margin, history.top is full, and the row on
\* the top margin shows another text than the oldest line of history.top
C34_FullTopAtBottomMargin ==
    LET s == emulator.screen
    IN /\ s.cursor.y = s.margins.bottom
       /\ Len(s.history.top) = FacadeHistory
       /\ s.buffer[s.margins.top + 1] # s.history.top[1]
       /\ history_index(s).history.top[1] = s.history.top[2]

\* index() on the bottom margin: the rows of the region move up by one
IndexScrolls(s) ==
    LET t == index(s)
    IN /\ t.cursor = s.cursor
       /\ \A r \in Range(0, s.lines) :
             Row(t, r) =
                 CASE r < s.margins.top \/ r > s.margins.bottom -> Row(s, r)
                   [] r < s.margins.bottom -> Row(s, r + 1)
                   [] OTHER -> [x \in Range(0, s.columns) |-> default_char]

(***************************************************************************)
(* C35: index() with the cursor on the bottom margin leaves the cursor     *)
(* where it is, moves each row top+1..bottom up by one, blanks the row on  *)
(* the bottom margin and leaves the rows outside the margins unchanged;    *)
(* with the cursor elsewhere it only moves the cursor down one row, not    *)
(* past the bottom margin, and changes no cell.                            *)
(***************************************************************************)
C35_Index ==
    LET t == index(screen)
        y == screen.cursor.y
    IN IF y = screen.margins.bottom
       THEN IndexScrolls(screen)
       ELSE /\ \A r \in Range(0, screen.lines) : Row(t, r) = Row(screen, r)
            /\ t.cursor.x = screen.cursor.x
            /\ t.cursor.y >= y
            /\ t.cursor.y <= y + 1
            /\ y < screen.margins.bottom => t.cursor.y = y + 1

\* the same for a cursor on or above the bottom margin
C35_IndexAboveBottomMargin ==
    LET t == index(screen)
        y == screen.cursor.y
    IN /\ y = screen.margins.bottom => IndexScrolls(screen)
       /\ y < screen.margins.bottom =>
             /\ \A r \in Range(0, screen.lines) : Row(t, r) = Row(screen, r)
             /\ t.cursor.x = screen.cursor.x
             /\ t.cursor.y = y + 1
       /\ y > screen.margins.bottom =>
             \A r \in Range(0, screen.lines) : Row(t, r) = Row(screen, r)

\* the cursor is below the bottom margin and index() takes it up to the
\* margin
C35_CursorBelowMarginGoesUp ==
    /\ screen.cursor.y > screen.margins.bottom
    /\ index(screen).cursor.y = screen.margins.bottom

(***************************************************************************)
(* SpecCharset: a screen fed text, SO and SI, and the sequences ESC ( c    *)
(* and ESC ) c that define G0 and G1; define_charset is also called on the *)
(* screen itself.                                                          *)
(***************************************************************************)
CharsetLines == 2

CharsetColumns == 2

CharsetCodes == {"B", "0"}

Designations ==
    {<<ESC, mode, code>> : mode \in {"(", ")"}, code \in CharsetCodes}

InitCharset ==
    /\ terminal_buffer = SublimeTerminalBuffer
    /\ screen = Screen(CharsetColumns, CharsetLines)
    /\ stream = Stream
    /\ shell = LinuxPty
    /\ emulator = PyteTerminalEmulator(FacadeColumns, FacadeLines, 1, Half)
    /\ session = TerminalView(FALSE)

NextCharset ==
    \* Stream.feed
    \/ /\ \E chars \in Designations
                         \cup {<<"a">>, <<"SO">>, <<"SI">>, <<"LF">>, <<"CR">>} :
             LET fed(r) == stream' = r.stream /\ screen' = r.screen
             IN fed(feed(stream, screen, chars))
       /\ UNCHANGED <<shell, emulator, session, terminal_buffer>>
    \* Screen.define_charset
    \/ /\ \E code \in CharsetCodes, mode \in {"(", ")"} :
             screen' = define_charset(screen, code, mode)
       /\ UNCHANGED <<stream, shell, emulator, session, terminal_buffer>>

SpecCharset == InitCharset /\ [][NextCharset]_vars

\* the character a draw of "a" would put on the screen
Drawn(s) ==
    LET t == draw(s, <<"a">>)
        x == IF s.cursor.x = s.columns
             THEN IF DECAWM \in s.mode THEN 0 ELSE s.columns - 1
             ELSE s.cursor.x
    IN LineGet(BufGet(t.buffer, t.cursor.y), x).data

(***************************************************************************)
(* C36: feeding ESC ( c, respectively ESC ) c, with c a known charset code *)
(* sets g0, respectively g1, to that translation map and leaves the other  *)
(* slot and the selector as they are, and the draws that follow translate  *)
(* through the selected slot.                                              *)
(***************************************************************************)
C36_DesignateCharset ==
    \A code \in CharsetCodes :
        LET g0 == feed(stream, screen, <<ESC, "(", code>>).screen
            g1 == feed(stream, screen, <<ESC, ")", code>>).screen
        IN /\ g0 = [screen EXCEPT !.g0_charset = MAPS[code]]
           /\ g1 = [screen EXCEPT !.g1_charset = MAPS[code]]
           /\ Drawn(g0) = translate("a", IF screen.charset = 0
                                         THEN MAPS[code]
                                         ELSE screen.g1_charset)

\* what holds: define_charset sets the slot, and draw translates through
\* the slot that SO and SI select
C36_DefineCharsetAndDraw ==
    /\ \A code \in CharsetCodes :
          /\ define_charset(screen, code, "(")
                = [screen EXCEPT !.g0_charset = MAPS[code]]
          /\ define_charset(screen, code, ")")
                = [screen EXCEPT !.g1_charset = MAPS[code]]
    /\ Drawn(screen) = translate("a", IF screen.charset = 0
                                      THEN screen.g0_charset
                                      ELSE screen.g1_charset)

\* G0 is selected and is Latin-1; ESC ( 0 is fed, G0 is still Latin-1 and
\* an "a" is drawn as "a"
C36_DesignationIgnored ==
    LET fed == feed(stream, screen, <<ESC, "(", "0">>)
    IN /\ screen.charset = 0
       /\ screen.g0_charset = "LAT1"
       /\ LineGet(BufGet(screen.buffer, 0), 0).data = "a"
       /\ fed.stream.alive
       /\ fed.screen.g0_charset = "LAT1"
       /\ Drawn(fed.screen) = "a"

(***************************************************************************)
(* SpecPaint: terminal_view_update with colours on.  The child writes      *)
(* text, line feeds and SGR sequences that set and reset a red background; *)
(* each frame leaves in calls what it did to the view: the line it         *)
(* replaced, the regions it added, where it put the cursor.                *)
(***************************************************************************)
ViewCall(call, line_no, idx) == [call |-> call, line_no |-> line_no, idx |-> idx]

\* TerminalViewUpdate._update_line_colors: one add_regions for each field
\* of the line
update_line_colors(line_no, line_color_map) ==
    LET fields == sorted(DOMAIN line_color_map)
    IN [i \in 1..Len(fields) |-> ViewCall("add_regions", line_no, fields[i])]

\* TerminalViewUpdate._update_lines with colours: for each row in ascending
\* order the line is replaced when the cached one differs, then the
\* colours of the line are applied
RECURSIVE update_lines_calls(_, _, _, _)
update_lines_calls(tb, lines, color_map, rows) ==
    IF rows = <<>> THEN <<>>
    ELSE LET line_no == Head(rows)
             cache == tb.view_content_cache
             replaced ==
                 IF line_no \in DOMAIN cache
                      /\ cache[line_no] = Append(lines[line_no], "LF")
                 THEN <<>> ELSE <<ViewCall("replace", line_no, 0)>>
             coloured ==
                 IF line_no \in DOMAIN color_map
                 THEN update_line_colors(line_no, color_map[line_no])
                 ELSE <<>>
         IN replaced \o coloured
              \o update_lines_calls(tb, lines, color_map, Tail(rows))

\* TerminalViewUpdate._update_cursor; last: terminal_view_last_cursor_pos
update_cursor(emu, last) ==
    LET cursor_pos == <<emu.screen.cursor.y, emu.screen.cursor.x>>
    IN IF cursor_is_hidden(emu)
       THEN [calls |-> <<ViewCall("sel_clear", 0, 0)>>, last |-> last]
       ELSE IF last = cursor_pos THEN [calls |-> <<>>, last |-> last]
       ELSE [calls |-> <<ViewCall("sel_clear", 0, 0),
                         ViewCall("sel_add", cursor_pos[1], cursor_pos[2])>>,
             last |-> cursor_pos]

\* TerminalViewUpdate.run of a buffer with colours enabled
terminal_view_update_colours(tb, emu, order) ==
    LET lines == dirty_lines(emu, order)
        rows == sorted(DOMAIN lines)
        color_map == IF lines # <<>> THEN emulator_color_map(emu, rows)
                     ELSE <<>>
        last == IF lines # <<>> THEN <<>> ELSE tb.last_cursor_pos
        cursor == update_cursor(emu, last)
        painted == terminal_view_update_run(tb, emu, order)
    IN [terminal_buffer |->
            [painted.terminal_buffer EXCEPT
                !.calls = update_lines_calls(tb, lines, color_map, rows)
                            \o cursor.calls,
                !.last_cursor_pos = cursor.last],
        emulator |-> painted.emulator]

PaintData ==
    {<<"a">>, <<"LF">>, <<"CR">>, <<ESC, "[", "4", "1", "m">>,
     <<ESC, "[", "m">>}

InitPaint ==
    /\ terminal_buffer = SublimeTerminalBuffer
    /\ screen = Screen(MaxColumns, MaxLines)
    /\ stream = Stream
    /\ shell = LinuxPty
    /\ emulator = PyteTerminalEmulator(FacadeColumns, FacadeLines, 1, Half)
    /\ session = TerminalView(FALSE)

NextPaint ==
    \* SublimeTerminalBuffer.insert_data
    \/ /\ \E data \in PaintData : emulator' = emulator_feed(emulator, data)
       /\ UNCHANGED <<screen, stream, shell, session, terminal_buffer>>
    \* SublimeTerminalBuffer.update_view: terminal_view_update
    \/ /\ emulator.modified
       /\ \E order \in Orders(emulator.screen.dirty) :
             LET updated ==
                     terminal_view_update_colours(terminal_buffer, emulator,
                                                  order)
             IN /\ terminal_buffer' = updated.terminal_buffer
                /\ emulator' = updated.emulator
       /\ UNCHANGED <<screen, stream, shell, session>>

SpecPaint == InitPaint /\ [][NextPaint]_vars

\* does a call of the kind a come before a call of the kind b?
Precedes(calls, a, b) ==
    \E i \in DOMAIN calls, j \in DOMAIN calls :
        i < j /\ calls[i].call = a /\ calls[j].call = b

(***************************************************************************)
(* C37: within one frame of terminal_view_update every replacement of a    *)
(* line comes before every addition of a style region, and the placement   *)
(* of the cursor comes after both.                                         *)
(***************************************************************************)
C37_FrameOrder ==
    /\ ~Precedes(terminal_buffer.calls, "add_regions", "replace")
    /\ ~Precedes(terminal_buffer.calls, "sel_add", "replace")
    /\ ~Precedes(terminal_buffer.calls, "sel_add", "add_regions")

\* what holds: the rows are taken in ascending order, the regions of a row
\* are added after the row is replaced and before the next row is, and the
\* cursor is placed last
C37_FrameOrderRowByRow ==
    LET calls == terminal_buffer.calls
    IN /\ \A i \in DOMAIN calls, j \in DOMAIN calls :
             (i < j /\ calls[i].call \in {"replace", "add_regions"}
                    /\ calls[j].call \in {"replace", "add_regions"}) =>
                 /\ calls[i].line_no <= calls[j].line_no
                 /\ calls[i].line_no = calls[j].line_no =>
                       calls[j].call = "add_regions"
       /\ ~Precedes(calls, "sel_add", "replace")
       /\ ~Precedes(calls, "sel_add", "add_regions")
       /\ ~Precedes(calls, "sel_clear", "replace")

\* a frame added the region of row 0, then replaced row 1, then placed the
\* cursor
C37_RegionBeforeReplacement ==
    \E i \in DOMAIN terminal_buffer.calls :
        /\ i + 2 \in DOMAIN terminal_buffer.calls
        /\ terminal_buffer.calls[i] = ViewCall("add_regions", 0, 0)
        /\ terminal_buffer.calls[i + 1] = ViewCall("replace", 1, 0)
        /\ terminal_buffer.calls[Len(terminal_buffer.calls)].call = "sel_add"

(***************************************************************************)
(* SpecPages: an emulator of PagesLines rows with a history of             *)
(* PagesHistory lines, long enough to page up twice; the child writes      *)
(* text, line feeds and reverse line feeds, the user pages up and down.    *)
(***************************************************************************)
PagesLines == 2

PagesHistory == 3

InitPages ==
    /\ terminal_buffer = SublimeTerminalBuffer
    /\ screen = Screen(MaxColumns, MaxLines)
    /\ stream = Stream
    /\ shell = LinuxPty
    /\ \E ratio \in {Half, [num |-> 1, den |-> 1]} :
          emulator = PyteTerminalEmulator(FacadeColumns, PagesLines,
                                          PagesHistory, ratio)
    /\ session = TerminalView(FALSE)

NextPages ==
    \/ /\ ~scroll_to_bottom_hangs(emulator.screen)
       /\ \E data \in FacadeData : EmulatorOp(emulator_feed(emulator, data))
    \/ EmulatorOp(emulator_prev_page(emulator))
    \/ EmulatorOp(emulator_next_page(emulator))

SpecPages == InitPages /\ [][NextPages]_vars

ModeLines == 2

ModeColumns == 2

ModeText == 2

MaxParameter == 9999

SM(n) == <<ESC, "[">> \o Decimal(n) \o <<"h">>

RM(n) == <<ESC, "[">> \o Decimal(n) \o <<"l">>

ModeParameters == {LNM, DECCOLM, DECSCNM, DECOM, DECAWM, DECTCEM}

InitModes ==
    /\ terminal_buffer = SublimeTerminalBuffer
    /\ screen = Screen(ModeColumns, ModeLines)
    /\ stream = Stream
    /\ shell = LinuxPty
    /\ emulator = PyteTerminalEmulator(FacadeColumns, FacadeLines, 1, Half)
    /\ session = TerminalView(FALSE)

NextModes ==
    \/ /\ \E chars \in {SM(n) : n \in ModeParameters}
                         \cup {RM(n) : n \in ModeParameters}
                         \cup {<<ESC, "[", "?">> \o Decimal(n \div 32) \o <<c>> :
                                 n \in {DECTCEM, DECOM, DECAWM},
                                 c \in {"h", "l"}}
                         \cup {<<"LF">>, CUP(2, 2)} :
             LET fed(r) == stream' = r.stream /\ screen' = r.screen
             IN fed(feed(stream, screen, chars))
       /\ UNCHANGED <<shell, emulator, session, terminal_buffer>>
    \/ /\ screen.cursor.x < ModeText
       /\ LET fed(r) == stream' = r.stream /\ screen' = r.screen
          IN fed(feed(stream, screen, <<"a">>))
       /\ UNCHANGED <<shell, emulator, session, terminal_buffer>>

SpecModes == InitModes /\ [][NextModes]_vars

\* nothing but the set of modes differs between s and t
OnlyModeChanged(s, t) == t = [s EXCEPT !.mode = t.mode]

(***************************************************************************)
(* C39: SM or RM without the private marker never has the side effect of a *)
(* private mode: for every parameter n in 0..9999 it does not change the   *)
(* width of the screen, erase the display, home the cursor, set or clear   *)
(* the reverse flag of a cell, or change whether the cursor is shown.      *)
(***************************************************************************)
C39_NonPrivateModes ==
    \A n \in 0..MaxParameter :
        /\ OnlyModeChanged(screen, feed(stream, screen, SM(n)).screen)
        /\ OnlyModeChanged(screen, feed(stream, screen, RM(n)).screen)

\* the same for the numbers of the private modes as they are written after
\* "?" (3, 5, 6, 7, 25), for IRM and LNM, and for the smallest and the
\* largest parameter
C39_NonPrivateModesUnshifted ==
    \A n \in {m \div 32 : m \in {DECCOLM, DECSCNM, DECOM, DECAWM, DECTCEM}}
               \cup {0, IRM, LNM, MaxParameter} :
        /\ OnlyModeChanged(screen, feed(stream, screen, SM(n)).screen)
        /\ OnlyModeChanged(screen, feed(stream, screen, RM(n)).screen)

\* CSI 96 h has made the screen 132 columns wide, erased the "a" of row 0
\* and homed the cursor
C39_Columns132 ==
    /\ screen.columns = 132
    /\ DECCOLM \in screen.mode
    /\ screen.cursor.x = 0
    /\ screen.cursor.y = 0
    /\ 0 \in DOMAIN screen.buffer
    /\ 0 \in DOMAIN screen.buffer[0]
    /\ screen.buffer[0][0].data = " "

(***************************************************************************)
(* SpecStale: a screen of up to StaleLines rows and StaleColumns columns   *)
(* that is written to, has characters and lines inserted and deleted and   *)
(* its margins set, and is made smaller and larger.                        *)
(***************************************************************************)
StaleLines == 3

StaleColumns == 2

InitStale ==
    /\ terminal_buffer = SublimeTerminalBuffer
    /\ screen = Screen(StaleColumns, StaleLines)
    /\ stream = Stream
    /\ shell = LinuxPty
    /\ emulator = PyteTerminalEmulator(FacadeColumns, FacadeLines, 1, Half)
    /\ session = TerminalView(FALSE)

NextStale ==
    \/ ScreenOp(draw(screen, <<"a">>))
    \/ \E line \in {1, StaleLines} : ScreenOp(cursor_position(screen, line, 1))
    \/ ScreenOp(insert_characters(screen, 1))
    \/ ScreenOp(delete_characters(screen, 1))
    \/ ScreenOp(insert_lines(screen, 1))
    \/ ScreenOp(set_margins(screen, 1, 2))
    \/ \E size \in {<<StaleLines, 1>>, <<2, StaleColumns>>,
                   <<StaleLines, StaleColumns>>} :
          ScreenOp(resize(screen, size[1], size[2]))

SpecStale == InitStale /\ [][NextStale]_vars

\* every row the buffer stores is a row of the screen
StoredRowsOnScreen(s) == \A y \in DOMAIN s.buffer : y < s.lines

\* every cell the buffer stores is in a column of the screen
StoredColumnsOnScreen(s) ==
    \A y \in DOMAIN s.buffer : \A x \in DOMAIN s.buffer[y] : x < s.columns

\* the rows and columns that a resize to lines x columns adds are blank
GrowsBlank(s, lines, columns) ==
    LET t == resize(s, lines, columns)
    IN \A y \in Range(0, lines), x \in Range(0, columns) :
           (y >= s.lines \/ x >= s.columns) =>
               LineGet(BufGet(t.buffer, y), x) = default_char

(***************************************************************************)
(* C40: after any sequence of screen operations every stored cell has a    *)
(* column index < columns and a row index < lines, so that making the      *)
(* screen larger never shows stale content: the rows and columns a grow    *)
(* adds are blank.                                                         *)
(***************************************************************************)
C40_NoStaleCells ==
    /\ StoredRowsOnScreen(screen)
    /\ StoredColumnsOnScreen(screen)
    /\ \A lines \in screen.lines..StaleLines,
          columns \in screen.columns..StaleColumns :
          GrowsBlank(screen, lines, columns)

\* the screen has one column, row 0 stores an "a" under column index 1, and
\* a resize to two columns shows it
C40_StaleCellShown ==
    /\ screen.columns = 1
    /\ 0 \in DOMAIN screen.buffer
    /\ 1 \in DOMAIN screen.buffer[0]
    /\ screen.buffer[0][1].data = "a"
    /\ LineGet(BufGet(resize(screen, screen.lines, 2).buffer, 0), 1).data = "a"

====
